---- MODULE Spec2Model ----
(***************************************************************************)
(* A model of the Betaflight blackbox log decoder: the byte stream         *)
(* (ArrayDataStream), the frame codec and dispatcher (FlightLogParser),    *)
(* the sub-log indexer (FlightLogIndex) and the facade (FlightLog).        *)
(*                                                                         *)
(* Conventions.  JavaScript arrays are sequences, so the element the code  *)
(* calls a[i] is a[i + 1] here.  `undefined` and NaN are the value Undef.  *)
(* A null frame reference is the ring index 0.  The calls the parser makes *)
(* to onFrameReady are recorded, in order, in the field `delivered` of the *)
(* parser; the indexer's and the facade's callbacks are folds over it      *)
(* (neither callback writes parser state).                                 *)
(***************************************************************************)
EXTENDS Integers, Sequences, FiniteSets, TLC

VARIABLES logData, parser, facade, calls

vars == <<logData, parser, facade, calls>>

(***************************************************************************)
(* Program constants                                                       *)
(***************************************************************************)
EOF == -1
FLIGHT_LOG_MAX_FRAME_LENGTH == 256
MAXIMUM_TIME_JUMP_BETWEEN_FRAMES == 10 * 1000000
MAXIMUM_ITERATION_JUMP_BETWEEN_FRAMES == 500 * 10
FLIGHT_LOG_FIELD_INDEX_ITERATION == 0
FLIGHT_LOG_FIELD_INDEX_TIME == 1

FLIGHT_LOG_FIELD_PREDICTOR_0 == 0
FLIGHT_LOG_FIELD_PREDICTOR_PREVIOUS == 1
FLIGHT_LOG_FIELD_PREDICTOR_STRAIGHT_LINE == 2
FLIGHT_LOG_FIELD_PREDICTOR_AVERAGE_2 == 3
FLIGHT_LOG_FIELD_PREDICTOR_MOTOR_0 == 5
FLIGHT_LOG_FIELD_PREDICTOR_INC == 6
FLIGHT_LOG_FIELD_PREDICTOR_1500 == 8
FLIGHT_LOG_FIELD_PREDICTOR_VBATREF == 9
FLIGHT_LOG_FIELD_PREDICTOR_LAST_MAIN_FRAME_TIME == 10
FLIGHT_LOG_FIELD_PREDICTOR_MINMOTOR == 11
FLIGHT_LOG_FIELD_ENCODING_SIGNED_VB == 0
FLIGHT_LOG_FIELD_ENCODING_UNSIGNED_VB == 1
FLIGHT_LOG_FIELD_ENCODING_NEG_14BIT == 3
FLIGHT_LOG_FIELD_ENCODING_TAG8_8SVB == 6
FLIGHT_LOG_FIELD_ENCODING_TAG2_3S32 == 7
FLIGHT_LOG_FIELD_ENCODING_TAG8_4S16 == 8
FLIGHT_LOG_FIELD_ENCODING_NULL == 9
FLIGHT_LOG_FIELD_ENCODING_TAG2_3SVARIABLE == 10

\* FlightLogEvent (FlightLogFieldDefs, imported by the parser).
SYNC_BEEP == 0
LOGGING_RESUME == 14
DISARM == 15
FLIGHT_MODE == 30
LOG_END == 255

\* The ASCII codes of the frame markers and of "End of log\0".
CharE == 69
CharI == 73
CharP == 80
CharS == 83
END_OF_LOG_MESSAGE == <<69, 110, 100, 32, 111, 102, 32, 108, 111, 103, 0>>

\* Numbers.  The model's integers are those of the model checker, the signed
\* 32-bit integers, so every Number of the model is its own int32 (x | 0 = x).
\* `undefined` and NaN are one value that no decoded field takes: the fields
\* of the logs below are sums of a few values of at most four VB bytes.
Undef == 0 - 2^30

Pow2(n) == 2^n

\* ~~(x / 2): division truncating toward zero; ~~NaN is 0.
TruncHalf(x) ==
    IF x = Undef THEN 0
    ELSE IF x >= 0 THEN x \div 2 ELSE 0 - ((0 - x) \div 2)

Max(a, b) == IF a >= b THEN a ELSE b
Min(a, b) == IF a <= b THEN a ELSE b

(***************************************************************************)
(* ArrayDataStream.  A stream is the fields pos, end, eof of the record    *)
(* it is part of; a read returns the value with the new pos and eof.       *)
(***************************************************************************)
\* readByte, were a read at the end of the stream to advance the position.
readBytePastEnd(s) ==
    IF s.pos < s.end
    THEN [v |-> logData[s.pos + 1], pos |-> s.pos + 1, eof |-> s.eof]
    ELSE [v |-> EOF, pos |-> s.pos + 1, eof |-> TRUE]

readByte(s) ==
    IF s.pos < s.end
    THEN [v |-> logData[s.pos + 1], pos |-> s.pos + 1, eof |-> s.eof]
    ELSE [v |-> EOF, pos |-> s.pos, eof |-> TRUE]

readChar(s) == readByte(s)

\* The fifth byte of a value with its bit 28 forgotten: a mask of three bits
\* where the shift leaves four.
VBAccumulateThreeBits(result, b, i) ==
    CASE i < 4 -> result + (b % 128) * Pow2(7 * i)
      [] i = 4 -> result + (b % 8) * Pow2(28)

\* result | ((b & ~0x80) << shift), an int32.  The first four bytes give the
\* bits 0..27; of the fifth the shift keeps the low four bits, as the bits
\* 28..31, and bit 31 is the sign of the int32.
VBAccumulate(result, b, i) ==
    CASE i < 4 -> result + (b % 128) * Pow2(7 * i)
      [] i = 4 -> result + (IF b % 16 < 8 THEN b % 16 ELSE (b % 16) - 16) * Pow2(28)

\* The loop of readUnsignedVB; v is `result` at the final byte, an int32, and
\* 0 at the end of the stream and after five bytes.
RECURSIVE readUnsignedVBLoop(_, _, _)
readUnsignedVBLoop(s, i, result) ==
    IF i >= 5 THEN [v |-> 0, pos |-> s.pos, eof |-> s.eof]
    ELSE LET read(r) ==
                 IF r.v = EOF THEN [v |-> 0, pos |-> r.pos, eof |-> r.eof]
                 ELSE IF r.v < 128
                 THEN [v |-> VBAccumulate(result, r.v, i), pos |-> r.pos, eof |-> r.eof]
                 ELSE readUnsignedVBLoop([pos |-> r.pos, end |-> s.end, eof |-> r.eof],
                                         i + 1, VBAccumulate(result, r.v, i))
         IN read(readByte(s))

\* x >>> 0 of an int32 x, a Number below 2^32, as its two halves of 16 bits:
\* <<h, l>> is h * 2^16 + l.  (\div rounds down and % is never negative.)
Uint32(x) == <<(x \div 65536) % 65536, x % 65536>>

\* The Number of two halves.  The model's integers end at 2^31 - 1: a Number
\* of 2^31 or more is none of them, and the CASE has no arm for it.
NumberOf(halves) == CASE halves[1] < 32768 -> halves[1] * 65536 + halves[2]

\* readUnsignedVB with its result as two halves.
readUnsignedVBHalves(s) == [readUnsignedVBLoop(s, 0, 0) EXCEPT !.v = Uint32(@)]

readUnsignedVB(s) == [readUnsignedVBHalves(s) EXCEPT !.v = NumberOf(@)]

\* (unsigned >>> 1) ^ -(unsigned & 1) of the halves of `unsigned`: an int32.
ZigZagDecode(halves) ==
    IF halves[2] % 2 = 0
    THEN halves[1] * 32768 + halves[2] \div 2
    ELSE 0 - (halves[1] * 32768 + halves[2] \div 2) - 1

readSignedVB(s) == [readUnsignedVBHalves(s) EXCEPT !.v = ZigZagDecode(@)]

\* readString(length): the characters read, -1 for each read at the end.
RECURSIVE readString(_, _)
readString(s, length) ==
    IF length = 0 THEN [v |-> <<>>, pos |-> s.pos, eof |-> s.eof]
    ELSE LET read(r) ==
                 [readString([pos |-> r.pos, end |-> s.end, eof |-> r.eof], length - 1)
                    EXCEPT !.v = <<r.v>> \o @]
         IN read(readChar(s))

signExtend14Bit(word) ==
    IF (word \div 8192) % 2 = 1 THEN (word % 16384) - 16384 ELSE word

\* for (i = 0; i < 8; i++, header >>= 1) values[i] = header & 1 ? readSignedVB() : 0
\* acc = [v, pos, eof]: the values read so far and the stream after them.
RECURSIVE readTag8_8SVBLoop(_, _, _, _)
readTag8_8SVBLoop(acc, end, header, i) ==
    IF i >= 8 THEN acc
    ELSE readTag8_8SVBLoop(
             IF (header \div Pow2(i)) % 2 = 1
             THEN [readSignedVB([pos |-> acc.pos, end |-> end, eof |-> acc.eof])
                     EXCEPT !.v = Append(acc.v, @)]
             ELSE [acc EXCEPT !.v = Append(@, 0)],
             end, header, i + 1)

readTag8_8SVB(s, valueCount) ==
    IF valueCount = 1
    THEN [readSignedVB(s) EXCEPT !.v = <<@>>]
    ELSE LET values(h) ==
                 readTag8_8SVBLoop([v |-> <<>>, pos |-> h.pos, eof |-> h.eof], s.end,
                                   IF h.v = EOF THEN 255 ELSE h.v, 0)
         IN values(readByte(s))

\* signExtend2Bit .. signExtend24Bit of a Number x: x | ~(2^n - 1) when bit
\* n - 1 of x is set, x otherwise.  (\div rounds down and % is never negative,
\* as >> and & are on the int32 of EOF.)
signExtend(n, x) ==
    IF (x \div Pow2(n - 1)) % 2 = 1 THEN (x % Pow2(n)) - Pow2(n) ELSE x

\* byte1 | (byte2 << 8) | ..., sign-extended from its top byte: an int32.
\* A byte read at the end of the stream is EOF, all bits set.
RECURSIVE orBytes(_)
orBytes(bytes) ==
    IF Head(bytes) = EOF THEN EOF
    ELSE IF Len(bytes) = 1 THEN signExtend(8, Head(bytes))
    ELSE Head(bytes) + 256 * orBytes(Tail(bytes))

\* Selector 3 of the TAG2_3S32 and TAG2_3SVARIABLE groups: for (i = 0; i < 3;
\* i++, leadByte >>= 2) a field of one to four bytes by the low bits of leadByte.
\* acc = [v, pos, eof]: the array `values` and the stream so far.
RECURSIVE readTag2_3Wide(_, _, _, _)
readTag2_3Wide(acc, end, leadByte, i) ==
    IF i >= 3 THEN acc
    ELSE LET field(r) ==
                 [v |-> [acc.v EXCEPT ![i + 1] = orBytes(r.v)], pos |-> r.pos, eof |-> r.eof]
         IN readTag2_3Wide(
                field(readString([pos |-> acc.pos, end |-> end, eof |-> acc.eof],
                                 ((leadByte \div Pow2(2 * i)) % 4) + 1)),
                end, leadByte, i + 1)

\* readTag2_3S32(values): v is the array `values` as the call leaves it.  No
\* case of the switch matches the selector of EOF.
readTag2_3S32(s, values) ==
    LET lead == readByte(s)
        leadByte == lead.v
        after == [pos |-> lead.pos, end |-> s.end, eof |-> lead.eof]
        set(r, v0, v1, v2) ==
            [v |-> [values EXCEPT ![1] = v0, ![2] = v1, ![3] = v2],
             pos |-> r.pos, eof |-> r.eof]
        four(r) == set(r, signExtend(4, leadByte % 16),
                       signExtend(4, r.v \div 16), signExtend(4, r.v % 16))
        six(r) == set(r, signExtend(6, leadByte % 64),
                      signExtend(6, r.v[1] % 64), signExtend(6, r.v[2] % 64))
    IN CASE leadByte \div 64 = 0 ->
              set(lead, signExtend(2, (leadByte \div 16) % 4),
                  signExtend(2, (leadByte \div 4) % 4), signExtend(2, leadByte % 4))
         [] leadByte \div 64 = 1 -> four(readByte(after))
         [] leadByte \div 64 = 2 -> six(readString(after, 2))
         [] leadByte \div 64 = 3 ->
              readTag2_3Wide([v |-> values, pos |-> lead.pos, eof |-> lead.eof],
                             s.end, leadByte, 0)
         [] OTHER -> [v |-> values, pos |-> lead.pos, eof |-> lead.eof]

\* readTag2_3SVariable(values).  Selector 1: values[1] is of (leadByte & 1) << 5
\* and (leadByte2 & 0x0f) >> 4, which is 0.  Selector 2: values[1] is assigned
\* twice, the second time from leadByte2 alone, and values[0] is not assigned.
readTag2_3SVariable(s, values) ==
    LET lead == readByte(s)
        leadByte == lead.v
        after == [pos |-> lead.pos, end |-> s.end, eof |-> lead.eof]
        set(r, v0, v1, v2) ==
            [v |-> [values EXCEPT ![1] = v0, ![2] = v1, ![3] = v2],
             pos |-> r.pos, eof |-> r.eof]
        two(r) == set(r, signExtend(5, (leadByte \div 2) % 32),
                      signExtend(5, (leadByte % 2) * 32),
                      signExtend(4, r.v % 16))
        three(r) ==
            [v |-> [values EXCEPT
                      ![2] = signExtend(7, (r.v[1] % 64) * 2 + ((r.v[1] \div 128) % 2)),
                      ![3] = signExtend(7, r.v[2] % 128)],
             pos |-> r.pos, eof |-> r.eof]
    IN CASE leadByte \div 64 = 0 ->
              set(lead, signExtend(2, (leadByte \div 16) % 4),
                  signExtend(2, (leadByte \div 4) % 4), signExtend(2, leadByte % 4))
         [] leadByte \div 64 = 1 -> two(readByte(after))
         [] leadByte \div 64 = 2 -> three(readString(after, 2))
         [] leadByte \div 64 = 3 ->
              readTag2_3Wide([v |-> values, pos |-> lead.pos, eof |-> lead.eof],
                             s.end, leadByte, 0)
         [] OTHER -> [v |-> values, pos |-> lead.pos, eof |-> lead.eof]

\* The 61 bytes of "H Product:Blackbox flight data recorder by Nicholas
\* Sherlock\n", cut to the first two and the last one.  Like the whole marker
\* it begins with its only 'H' and ends with its only line feed, so that no
\* two occurrences of it overlap.
FLIGHT_LOG_START_MARKER == <<72, 32, 10>>

\* for (i = this.pos; i <= this.end - needle.length; i++) with a stop one
\* byte early.
RECURSIVE nextOffsetOfShort(_, _, _)
nextOffsetOfShort(pos, end, needle) ==
    IF pos >= end - Len(needle) THEN -1
    ELSE IF \A j \in 1..Len(needle) : logData[pos + j] = needle[j] THEN pos
    ELSE nextOffsetOfShort(pos + 1, end, needle)

\* nextOffsetOf(needle) of a stream at pos: the first i in pos..end - length
\* whose bytes are the needle's, or -1.  data[i + j] is logData[i + j + 1].
RECURSIVE nextOffsetOf(_, _, _)
nextOffsetOf(pos, end, needle) ==
    IF pos > end - Len(needle) THEN -1
    ELSE IF \A j \in 1..Len(needle) : logData[pos + j] = needle[j] THEN pos
    ELSE nextOffsetOf(pos + 1, end, needle)

\* allIndicesOf(marker) of a stream at pos: each offset found, the search
\* going on behind the marker found, then the end of the stream.
RECURSIVE allIndicesOfMarker(_, _, _)
allIndicesOfMarker(pos, end, marker) ==
    LET found(index) ==
            IF index = -1 THEN <<end>>
            ELSE <<index>> \o allIndicesOfMarker(index + Len(marker), end, marker)
    IN found(nextOffsetOf(pos, end, marker))

(***************************************************************************)
(* Frame definitions and system configuration.                             *)
(***************************************************************************)
NullFrame == <<>>

NoDef == [present |-> FALSE, name |-> <<>>, count |-> 0,
          predictor |-> <<>>, encoding |-> <<>>]

\* mapFieldNamesToIndex: the last position of the name, or undefined.
nameToIndex(frameDef, n) ==
    LET at == {i \in 1..Len(frameDef.name) : frameDef.name[i] = n}
    IN IF at = {} THEN Undef ELSE (CHOOSE i \in at : \A j \in at : j <= i) - 1

\* a[i] of a JavaScript array: undefined outside it.
At(a, i) == IF i >= 0 /\ i < Len(a) THEN a[i + 1] ELSE Undef

\* a[i] = v: the array grows, with holes, when i is past its end.
SetAt(a, i, v) ==
    IF i < Len(a) THEN [a EXCEPT ![i + 1] = v]
    ELSE a \o [k \in 1..(i - Len(a)) |-> Undef] \o <<v>>

\* Number arithmetic with NaN.
Plus(a, b) == IF a = Undef \/ b = Undef THEN Undef ELSE a + b

Times(k, a) == IF a = Undef THEN Undef ELSE k * a

\* a % b of JavaScript: the sign of the dividend; NaN when b is 0.
JsMod(a, b) ==
    IF a = Undef \/ b = Undef \/ b = 0 THEN Undef
    ELSE LET m == IF b < 0 THEN 0 - b ELSE b
         IN IF a >= 0 THEN a % m ELSE 0 - ((0 - a) % m)

newArray(n) == [k \in 1..n |-> Undef]

\* _isFrameDefComplete, were it to count the encodings only.
_isFrameDefCompleteEncodings(frameDef) ==
    /\ frameDef.present
    /\ frameDef.count > 0
    /\ Len(frameDef.encoding) = frameDef.count

_isFrameDefComplete(frameDef) ==
    /\ frameDef.present
    /\ frameDef.count > 0
    /\ Len(frameDef.encoding) = frameDef.count
    /\ Len(frameDef.predictor) = frameDef.count

(***************************************************************************)
(* FlightLogParser: the frame codec.                                       *)
(***************************************************************************)
_currentFrame(ps) == ps.mainHistoryRing[ps.mainHistory[1]]

_previousFrame(ps) ==
    IF ps.mainHistory[2] = 0 THEN NullFrame ELSE ps.mainHistoryRing[ps.mainHistory[2]]

_prevPreviousFrame(ps) ==
    IF ps.mainHistory[3] = 0 THEN NullFrame ELSE ps.mainHistoryRing[ps.mainHistory[3]]

_applyPrediction(ps, fieldIndex, predictor, value, current, previous, previous2) ==
    CASE predictor = FLIGHT_LOG_FIELD_PREDICTOR_0 -> [v |-> value, thrown |-> ""]
      [] predictor = FLIGHT_LOG_FIELD_PREDICTOR_MINMOTOR ->
            [v |-> value + ps.sysConfig.motorOutput0, thrown |-> ""]
      [] predictor = FLIGHT_LOG_FIELD_PREDICTOR_1500 -> [v |-> value + 1500, thrown |-> ""]
      [] predictor = FLIGHT_LOG_FIELD_PREDICTOR_MOTOR_0 ->
            \* nameToIndex["motor[0]"] < 0 is false for an index and for undefined
            LET m == nameToIndex(ps.frameDefs.I, "motor[0]")
            IN IF m # Undef /\ m < 0
               THEN [v |-> value, thrown |-> "Attempted to base I-field prediction on motor0 before it was read"]
               ELSE [v |-> Plus(value, IF m = Undef THEN Undef ELSE At(current, m)),
                     thrown |-> ""]
      [] predictor = FLIGHT_LOG_FIELD_PREDICTOR_VBATREF ->
            [v |-> value + ps.sysConfig.vbatref, thrown |-> ""]
      [] predictor = FLIGHT_LOG_FIELD_PREDICTOR_PREVIOUS ->
            IF previous = NullFrame THEN [v |-> value, thrown |-> ""]
            ELSE [v |-> Plus(value, At(previous, fieldIndex)), thrown |-> ""]
      [] predictor = FLIGHT_LOG_FIELD_PREDICTOR_STRAIGHT_LINE ->
            IF previous = NullFrame THEN [v |-> value, thrown |-> ""]
            ELSE IF previous2 = NullFrame
            THEN [v |-> value, thrown |-> "TypeError: previous2 is null"]
            ELSE [v |-> Plus(value, Plus(Times(2, At(previous, fieldIndex)),
                                         Times(-1, At(previous2, fieldIndex)))),
                  thrown |-> ""]
      [] predictor = FLIGHT_LOG_FIELD_PREDICTOR_AVERAGE_2 ->
            IF previous = NullFrame THEN [v |-> value, thrown |-> ""]
            ELSE IF previous2 = NullFrame
            THEN [v |-> value, thrown |-> "TypeError: previous2 is null"]
            ELSE [v |-> Plus(value, TruncHalf(Plus(At(previous, fieldIndex),
                                                   At(previous2, fieldIndex)))),
                  thrown |-> ""]
      [] predictor = FLIGHT_LOG_FIELD_PREDICTOR_LAST_MAIN_FRAME_TIME ->
            IF ps.mainHistory[2] # 0
            THEN [v |-> Plus(value, At(_previousFrame(ps), FLIGHT_LOG_FIELD_INDEX_TIME)),
                  thrown |-> ""]
            ELSE [v |-> value, thrown |-> ""]
      [] OTHER -> [v |-> value, thrown |-> ""]   \* console.error, value unchanged

\* The fields of one group, predicted in order: for (j = 0; j < n; j++, fieldIndex++)
\* over the groupCount values of the read r; the stream is then where r left it
\* and `values` holds what r wrote.
RECURSIVE applyGroup(_, _, _, _, _, _, _, _, _)
applyGroup(ps, frameDef, st, fieldIndex, r, groupCount, j, previous, previous2) ==
    IF j > groupCount \/ st.thrown # ""
    THEN [st |-> [st EXCEPT !.pos = r.pos, !.eof = r.eof,
                            !.values = [k \in 1..Len(@) |->
                                          IF k <= Len(r.v) THEN r.v[k] ELSE @[k]]],
          fieldIndex |-> fieldIndex]
    ELSE LET predicted(a) ==
                 applyGroup(ps, frameDef,
                            [st EXCEPT !.cur = IF a.thrown = ""
                                               THEN SetAt(st.cur, fieldIndex, a.v) ELSE @,
                                       !.thrown = a.thrown],
                            fieldIndex + 1, r, groupCount, j + 1, previous, previous2)
         IN predicted(_applyPrediction(ps, fieldIndex, At(frameDef.predictor, fieldIndex),
                                       r.v[j], st.cur, previous, previous2))

\* How many fields the TAG8_8SVB group starting at fieldIndex holds.
RECURSIVE groupEnd(_, _, _)
groupEnd(frameDef, fieldIndex, j) ==
    IF j < fieldIndex + 8 /\ j < frameDef.count
         /\ At(frameDef.encoding, j) = FLIGHT_LOG_FIELD_ENCODING_TAG8_8SVB
    THEN groupEnd(frameDef, fieldIndex, j + 1)
    ELSE j

\* parseFrame's loop from fieldIndex on; st = [cur, pos, end, eof, thrown,
\* values].  No definition of the logs modelled has a TAG8_4S16 field: the
\* CASE has no arm for it.
RECURSIVE parseFrameLoop(_, _, _, _, _, _, _)
parseFrameLoop(ps, frameDef, st, fieldIndex, previous, previous2, skippedFrames) ==
    IF ~(fieldIndex < frameDef.count) \/ st.thrown # "" THEN st
    ELSE
    LET pred == At(frameDef.predictor, fieldIndex)
        enc == At(frameDef.encoding, fieldIndex)
        predicted(r, a) ==
            parseFrameLoop(ps, frameDef,
                   [cur |-> IF a.thrown = "" THEN SetAt(st.cur, fieldIndex, a.v) ELSE st.cur,
                    pos |-> r.pos, end |-> st.end, eof |-> r.eof, thrown |-> a.thrown,
                    values |-> st.values],
                   fieldIndex + 1, previous, previous2, skippedFrames)
        scalar(r) ==
            predicted(r, _applyPrediction(ps, fieldIndex, pred, r.v, st.cur,
                                          previous, previous2))
        grouped(g) ==
            parseFrameLoop(ps, frameDef, g.st, g.fieldIndex, previous, previous2,
                           skippedFrames)
        groupCount == groupEnd(frameDef, fieldIndex, fieldIndex + 1) - fieldIndex
    IN
    IF pred = FLIGHT_LOG_FIELD_PREDICTOR_INC
    THEN parseFrameLoop(ps, frameDef,
             [st EXCEPT !.cur = SetAt(@, fieldIndex,
                  IF previous = NullFrame THEN skippedFrames + 1
                  ELSE Plus(skippedFrames + 1, At(previous, fieldIndex)))],
             fieldIndex + 1, previous, previous2, skippedFrames)
    ELSE
    CASE enc \in {FLIGHT_LOG_FIELD_ENCODING_SIGNED_VB, FLIGHT_LOG_FIELD_ENCODING_UNSIGNED_VB,
                  FLIGHT_LOG_FIELD_ENCODING_NEG_14BIT, FLIGHT_LOG_FIELD_ENCODING_NULL} ->
            scalar(CASE enc = FLIGHT_LOG_FIELD_ENCODING_SIGNED_VB -> readSignedVB(st)
                     [] enc = FLIGHT_LOG_FIELD_ENCODING_UNSIGNED_VB -> readUnsignedVB(st)
                     [] enc = FLIGHT_LOG_FIELD_ENCODING_NEG_14BIT ->
                          [readUnsignedVB(st) EXCEPT !.v = 0 - signExtend14Bit(@)]
                     [] enc = FLIGHT_LOG_FIELD_ENCODING_NULL ->
                          [v |-> 0, pos |-> st.pos, eof |-> st.eof])
      [] enc = FLIGHT_LOG_FIELD_ENCODING_TAG8_8SVB ->
            grouped(applyGroup(ps, frameDef, st, fieldIndex,
                               readTag8_8SVB(st, groupCount), groupCount, 1,
                               previous, previous2))
      [] enc = FLIGHT_LOG_FIELD_ENCODING_TAG2_3S32 ->
            grouped(applyGroup(ps, frameDef, st, fieldIndex,
                               readTag2_3S32(st, st.values), 3, 1, previous, previous2))
      [] enc = FLIGHT_LOG_FIELD_ENCODING_TAG2_3SVARIABLE ->
            grouped(applyGroup(ps, frameDef, st, fieldIndex,
                               readTag2_3SVariable(st, st.values), 3, 1,
                               previous, previous2))
      [] enc = Undef ->
            [st EXCEPT !.thrown = "Missing field encoding header"]
      [] enc \notin {FLIGHT_LOG_FIELD_ENCODING_TAG8_4S16, Undef} ->
            [st EXCEPT !.thrown = "Unsupported field encoding"]

parseFrame(ps, frameDef, current, previous, previous2, skippedFrames) ==
    parseFrameLoop(ps, frameDef,
                   [cur |-> current, pos |-> ps.pos, end |-> ps.end, eof |-> ps.eof,
                    thrown |-> "", values |-> newArray(8)],
                   0, previous, previous2, skippedFrames)

(***************************************************************************)
(* FlightLogParser: state, statistics and the history ring.                *)
(***************************************************************************)
FrameMarkers == {"I", "P", "S", "E"}

\* this.frameTypes[command]: the frame type a marker byte names, "" for none.
frameTypes(command) ==
    CASE command = CharI -> "I"
      [] command = CharP -> "P"
      [] command = CharS -> "S"
      [] command = CharE -> "E"
      [] OTHER -> ""

NullEvent == [event |-> Undef, time |-> Undef, d1 |-> Undef, d2 |-> Undef]

NoFrameStats == [exists |-> FALSE, bytes |-> 0, validCount |-> 0, corruptCount |-> 0,
                 fieldMin |-> <<>>, fieldMax |-> <<>>]

resetStats == [totalBytes |-> 0, totalCorruptedFrames |-> 0,
               intentionallyAbsentIterations |-> 0,
               frame |-> [t \in FrameMarkers |-> NoFrameStats]]

defaultSysConfig ==
    [frameIntervalI |-> 32, frameIntervalPNum |-> 1, frameIntervalPDenom |-> 1,
     firmwareType |-> "UNKNOWN", firmwareVersion |-> <<0, 0, 0>>,
     vbatref |-> 4095, motorOutput0 |-> 0, fields_disabled_mask |-> 0,
     pidSumLimit |-> 0, pidSumLimitYaw |-> 0]

invalidateMainStream(ps) ==
    [ps EXCEPT !.mainStreamIsValid = FALSE,
               !.mainHistory = <<IF ps.mainHistoryRing # <<>> THEN 1 ELSE 0, 0, 0>>]

JsMax(a, b) == IF a = Undef \/ b = Undef THEN Undef ELSE Max(a, b)
JsMin(a, b) == IF a = Undef \/ b = Undef THEN Undef ELSE Min(a, b)

_updateFieldStats(ps, frameType, frame) ==
    LET fs == ps.stats.frame[frameType]
        n == Max(Len(frame), Len(fs.fieldMax))
        mx == [i \in 1..n |->
                 IF i > Len(frame) THEN fs.fieldMax[i]
                 ELSE IF i > Len(fs.fieldMax) THEN frame[i]
                 ELSE JsMax(frame[i], fs.fieldMax[i])]
        mn == [i \in 1..n |->
                 IF i > Len(frame) THEN fs.fieldMin[i]
                 ELSE IF i > Len(fs.fieldMin) THEN frame[i]
                 ELSE JsMin(frame[i], fs.fieldMin[i])]
    IN [ps EXCEPT !.stats.frame[frameType].fieldMax = mx,
                  !.stats.frame[frameType].fieldMin = mn]

\* _rotateHistoryBuffers without the I-frame's branch: previous-previous is
\* always the former previous.
_rotateHistoryBuffersShift(ps, isIntraFrame) ==
    LET h == ps.mainHistory
    IN [ps EXCEPT !.mainHistory = <<(h[1] % 3) + 1, h[1], h[2]>>]

_rotateHistoryBuffers(ps, isIntraFrame) ==
    LET h == ps.mainHistory
        h1 == IF isIntraFrame THEN <<h[1], h[1], h[1]>> ELSE <<h[1], h[1], h[2]>>
    IN [ps EXCEPT !.mainHistory = <<(h1[1] % 3) + 1, h1[2], h1[3]>>]

_shouldHaveFrame(ps, frameIndex) ==
    LET below(m) == m # Undef /\ m < ps.sysConfig.frameIntervalPNum
    IN below(JsMod(Plus(Plus(JsMod(frameIndex, ps.sysConfig.frameIntervalI),
                             ps.sysConfig.frameIntervalPNum), -1),
                   ps.sysConfig.frameIntervalPDenom))

\* The loop ends at the first index the sampling rule logs.  The rule has the
\* period frameIntervalI, so when none of the next frameIntervalI indices is
\* logged the loop never ends: count |-> Undef.
_countIntentionallySkippedFrames(ps) ==
    IF ps.lastMainFrameIteration = -1 THEN 0
    ELSE LET from == ps.lastMainFrameIteration + 1
             period == Max(ps.sysConfig.frameIntervalI, 1)
             first(hits) ==
                 IF hits = {} THEN Undef
                 ELSE (CHOOSE k \in hits : \A j \in hits : k <= j) - from
         IN first({k \in from..(from + period) : _shouldHaveFrame(ps, k)})

_countIntentionallySkippedFramesTo(ps, targetIteration) ==
    IF ps.lastMainFrameIteration = -1 THEN 0
    ELSE Cardinality({k \in (ps.lastMainFrameIteration + 1)..(targetIteration - 1) :
                        ~_shouldHaveFrame(ps, k)})

\* this.onFrameReady(frameValid, frame, frameType, frameOffset, frameSize)
onFrameReady(ps, frameValid, frame, event, frameType, frameOffset, frameSize) ==
    [ps EXCEPT !.delivered = Append(@, [frameValid |-> frameValid, frame |-> frame,
                                        event |-> event, frameType |-> frameType,
                                        frameOffset |-> frameOffset,
                                        frameSize |-> frameSize])]

\* A delivery of a main frame (I or P).
IsMain(d) == d.frameType \in {"I", "P"}

\* Comparisons of Numbers: false when either side is NaN / undefined.
Le(a, b) == a # Undef /\ b # Undef /\ a <= b
Lt(a, b) == a # Undef /\ b # Undef /\ a < b

withCurrent(ps, st) ==
    [ps EXCEPT !.mainHistoryRing[ps.mainHistory[1]] = st.cur,
               !.pos = st.pos, !.eof = st.eof, !.thrown = st.thrown]

_parseIntraframe(ps) ==
    withCurrent(ps, parseFrame(ps, ps.frameDefs.I, _currentFrame(ps),
                               _previousFrame(ps), NullFrame, Undef))

\* _completeIntraframe with a jump of exactly the limit accepted.
_completeIntraframeAtMost(ps, frameType, frameStart, frameEnd) ==
    LET iteration == At(_currentFrame(ps), FLIGHT_LOG_FIELD_INDEX_ITERATION)
        time == At(_currentFrame(ps), FLIGHT_LOG_FIELD_INDEX_TIME)
        isFrameValid ==
            IF ps.lastMainFrameIteration # -1
            THEN /\ Le(ps.lastMainFrameIteration, iteration)
                 /\ Le(iteration, ps.lastMainFrameIteration
                                    + MAXIMUM_ITERATION_JUMP_BETWEEN_FRAMES)
                 /\ Le(ps.lastMainFrameTime, time)
                 /\ Le(time, ps.lastMainFrameTime + MAXIMUM_TIME_JUMP_BETWEEN_FRAMES)
            ELSE TRUE
        deliver(p1) ==
            onFrameReady(p1, p1.mainStreamIsValid, _currentFrame(p1), NullEvent,
                         frameType, frameStart, frameEnd - frameStart)
    IN [ps |-> _rotateHistoryBuffers(
                 deliver(IF isFrameValid
                         THEN _updateFieldStats(
                                [ps EXCEPT !.stats.intentionallyAbsentIterations =
                                               @ + _countIntentionallySkippedFramesTo(
                                                       ps, iteration),
                                           !.lastMainFrameIteration = iteration,
                                           !.lastMainFrameTime = time,
                                           !.mainStreamIsValid = TRUE],
                                frameType, _currentFrame(ps))
                         ELSE invalidateMainStream(ps)),
                 TRUE),
        accepted |-> FALSE]

_completeIntraframe(ps, frameType, frameStart, frameEnd) ==
    LET iteration == At(_currentFrame(ps), FLIGHT_LOG_FIELD_INDEX_ITERATION)
        time == At(_currentFrame(ps), FLIGHT_LOG_FIELD_INDEX_TIME)
        isFrameValid ==
            IF ps.lastMainFrameIteration # -1
            THEN /\ Le(ps.lastMainFrameIteration, iteration)
                 /\ Lt(iteration, ps.lastMainFrameIteration
                                    + MAXIMUM_ITERATION_JUMP_BETWEEN_FRAMES)
                 /\ Le(ps.lastMainFrameTime, time)
                 /\ Lt(time, ps.lastMainFrameTime + MAXIMUM_TIME_JUMP_BETWEEN_FRAMES)
            ELSE TRUE
        deliver(p1) ==
            onFrameReady(p1, p1.mainStreamIsValid, _currentFrame(p1), NullEvent,
                         frameType, frameStart, frameEnd - frameStart)
    IN [ps |-> _rotateHistoryBuffers(
                 deliver(IF isFrameValid
                         THEN _updateFieldStats(
                                [ps EXCEPT !.stats.intentionallyAbsentIterations =
                                               @ + _countIntentionallySkippedFramesTo(
                                                       ps, iteration),
                                           !.lastMainFrameIteration = iteration,
                                           !.lastMainFrameTime = time,
                                           !.mainStreamIsValid = TRUE],
                                frameType, _currentFrame(ps))
                         ELSE invalidateMainStream(ps)),
                 TRUE),
        accepted |-> FALSE]

_parseInterframe(ps) ==
    LET frame(p1) ==
            withCurrent(p1, parseFrame(p1, p1.frameDefs.P, _currentFrame(p1),
                                       _previousFrame(p1), _prevPreviousFrame(p1),
                                       p1.lastSkippedFrames))
        after(skipped) ==
            IF skipped = Undef THEN [ps EXCEPT !.hang = TRUE]
            ELSE frame([ps EXCEPT !.lastSkippedFrames = skipped])
    IN after(_countIntentionallySkippedFrames(ps))

\* _completeInterframe with the jump test alone deciding validity: a P-frame
\* within the limits is accepted whatever the stream's state.
_completeInterframeResync(ps, frameType, frameStart, frameEnd) ==
    LET time == At(_currentFrame(ps), FLIGHT_LOG_FIELD_INDEX_TIME)
        iteration == At(_currentFrame(ps), FLIGHT_LOG_FIELD_INDEX_ITERATION)
        valid == ~(\/ Lt(ps.lastMainFrameTime + MAXIMUM_TIME_JUMP_BETWEEN_FRAMES, time)
                   \/ Lt(ps.lastMainFrameIteration
                           + MAXIMUM_ITERATION_JUMP_BETWEEN_FRAMES, iteration))
        rotate(p2) == IF p2.mainStreamIsValid THEN _rotateHistoryBuffers(p2, FALSE) ELSE p2
        deliver(p1) ==
            rotate(onFrameReady(p1, p1.mainStreamIsValid, _currentFrame(p1), NullEvent,
                                frameType, frameStart, frameEnd - frameStart))
        count(p0) ==
            deliver(IF p0.mainStreamIsValid
                    THEN _updateFieldStats(
                           [p0 EXCEPT !.lastMainFrameIteration = iteration,
                                      !.lastMainFrameTime = time,
                                      !.stats.intentionallyAbsentIterations =
                                          @ + ps.lastSkippedFrames],
                           frameType, _currentFrame(ps))
                    ELSE p0)
    IN [ps |-> count([ps EXCEPT !.mainStreamIsValid = valid]), accepted |-> FALSE]

_completeInterframe(ps, frameType, frameStart, frameEnd) ==
    LET time == At(_currentFrame(ps), FLIGHT_LOG_FIELD_INDEX_TIME)
        iteration == At(_currentFrame(ps), FLIGHT_LOG_FIELD_INDEX_ITERATION)
        valid == /\ ps.mainStreamIsValid
                 /\ ~(\/ Lt(ps.lastMainFrameTime + MAXIMUM_TIME_JUMP_BETWEEN_FRAMES, time)
                      \/ Lt(ps.lastMainFrameIteration
                              + MAXIMUM_ITERATION_JUMP_BETWEEN_FRAMES, iteration))
        rotate(p2) == IF p2.mainStreamIsValid THEN _rotateHistoryBuffers(p2, FALSE) ELSE p2
        deliver(p1) ==
            rotate(onFrameReady(p1, p1.mainStreamIsValid, _currentFrame(p1), NullEvent,
                                frameType, frameStart, frameEnd - frameStart))
        count(p0) ==
            deliver(IF p0.mainStreamIsValid
                    THEN _updateFieldStats(
                           [p0 EXCEPT !.lastMainFrameIteration = iteration,
                                      !.lastMainFrameTime = time,
                                      !.stats.intentionallyAbsentIterations =
                                          @ + ps.lastSkippedFrames],
                           frameType, _currentFrame(ps))
                    ELSE p0)
    IN [ps |-> count([ps EXCEPT !.mainStreamIsValid = valid]), accepted |-> FALSE]

_parseSlowFrame(ps) ==
    IF ps.frameDefs.S.present
    THEN LET withSlow(st) ==
                 [ps EXCEPT !.lastSlow = st.cur, !.pos = st.pos, !.eof = st.eof,
                            !.thrown = st.thrown]
         IN withSlow(parseFrame(ps, ps.frameDefs.S, ps.lastSlow, NullFrame, NullFrame,
                                Undef))
    ELSE ps

_completeSlowFrame(ps, frameType, frameStart, frameEnd) ==
    [ps |-> onFrameReady(_updateFieldStats(ps, frameType, ps.lastSlow), TRUE, ps.lastSlow,
                         NullEvent, frameType, frameStart, frameEnd - frameStart),
     accepted |-> FALSE]

\* _parseEventFrame with the end of the stream left where it is.
_parseEventFrameKeepEnd(ps) ==
    LET after(r) == [pos |-> r.pos, end |-> ps.end, eof |-> r.eof]
        ev(eventType, time, d1, d2) ==
            [event |-> eventType, time |-> time, d1 |-> d1, d2 |-> d2]
        \* lastEvent and the stream after the read r
        at(r, event) == [ps EXCEPT !.lastEvent = event, !.pos = r.pos, !.eof = r.eof]
        syncBeep(eventType, one) == at(one, ev(eventType, one.v, one.v, Undef))
        disarm(eventType, one) == at(one, ev(eventType, Undef, one.v, Undef))
        second(eventType, one, two) == at(two, ev(eventType, Undef, one.v, two.v))
        first(eventType, one) == second(eventType, one, readUnsignedVB(after(one)))
        logEnd(eventType, msg) ==
            IF msg.v = END_OF_LOG_MESSAGE
            THEN at(msg, ev(eventType, Undef, Undef, Undef))
            ELSE at(msg, NullEvent)
        event(t) ==
            CASE t.v = SYNC_BEEP -> syncBeep(t.v, readUnsignedVB(after(t)))
              [] t.v \in {FLIGHT_MODE, LOGGING_RESUME} ->
                   first(t.v, readUnsignedVB(after(t)))
              [] t.v = DISARM -> disarm(t.v, readUnsignedVB(after(t)))
              [] t.v = LOG_END ->
                   logEnd(t.v, readString(after(t), Len(END_OF_LOG_MESSAGE)))
              [] OTHER -> at(t, NullEvent)
    IN event(readByte(ps))

_parseEventFrame(ps) ==
    LET after(r) == [pos |-> r.pos, end |-> ps.end, eof |-> r.eof]
        ev(eventType, time, d1, d2) ==
            [event |-> eventType, time |-> time, d1 |-> d1, d2 |-> d2]
        \* lastEvent and the stream after the read r
        at(r, event) == [ps EXCEPT !.lastEvent = event, !.pos = r.pos, !.eof = r.eof]
        syncBeep(eventType, one) == at(one, ev(eventType, one.v, one.v, Undef))
        disarm(eventType, one) == at(one, ev(eventType, Undef, one.v, Undef))
        second(eventType, one, two) == at(two, ev(eventType, Undef, one.v, two.v))
        first(eventType, one) == second(eventType, one, readUnsignedVB(after(one)))
        logEnd(eventType, msg) ==
            IF msg.v = END_OF_LOG_MESSAGE
            THEN [at(msg, ev(eventType, Undef, Undef, Undef)) EXCEPT !.end = msg.pos]
            ELSE at(msg, NullEvent)
        event(t) ==
            CASE t.v = SYNC_BEEP -> syncBeep(t.v, readUnsignedVB(after(t)))
              [] t.v \in {FLIGHT_MODE, LOGGING_RESUME} ->
                   first(t.v, readUnsignedVB(after(t)))
              [] t.v = DISARM -> disarm(t.v, readUnsignedVB(after(t)))
              [] t.v = LOG_END ->
                   logEnd(t.v, readString(after(t), Len(END_OF_LOG_MESSAGE)))
              [] OTHER -> at(t, NullEvent)
    IN event(readByte(ps))

_completeEventFrame(ps, frameType, frameStart, frameEnd) ==
    IF ps.lastEvent = NullEvent THEN [ps |-> ps, accepted |-> FALSE]
    ELSE LET p1 == IF ps.lastEvent.event = LOGGING_RESUME
                   THEN [ps EXCEPT !.lastMainFrameIteration = ps.lastEvent.d1,
                                   !.lastMainFrameTime = ps.lastEvent.d2]
                   ELSE ps
         IN [ps |-> onFrameReady(p1, TRUE, NullFrame, p1.lastEvent, frameType,
                                 frameStart, frameEnd - frameStart),
             accepted |-> TRUE]

parse(ps, frameType) ==
    CASE frameType = "I" -> _parseIntraframe(ps)
      [] frameType = "P" -> _parseInterframe(ps)
      [] frameType = "S" -> _parseSlowFrame(ps)
      [] frameType = "E" -> _parseEventFrame(ps)

complete(ps, frameType, frameStart, frameEnd) ==
    CASE frameType = "I" -> _completeIntraframe(ps, frameType, frameStart, frameEnd)
      [] frameType = "P" -> _completeInterframe(ps, frameType, frameStart, frameEnd)
      [] frameType = "S" -> _completeSlowFrame(ps, frameType, frameStart, frameEnd)
      [] frameType = "E" -> _completeEventFrame(ps, frameType, frameStart, frameEnd)

resetDataState(ps) ==
    [invalidateMainStream(ps) EXCEPT !.lastSkippedFrames = 0,
                                     !.lastMainFrameIteration = -1,
                                     !.lastMainFrameTime = -1,
                                     !.lastEvent = NullEvent]

\* startOffset ?? pos and endOffset ?? end: Undef stands for a null argument.
_setStreamRange(ps, startOffset, endOffset) ==
    LET start == IF startOffset = Undef THEN ps.pos ELSE startOffset
    IN [ps EXCEPT !.start = start, !.pos = start,
                  !.end = IF endOffset = Undef THEN @ ELSE endOffset,
                  !.eof = FALSE]

(***************************************************************************)
(* Log headers.  The start marker line and the header lines after it are   *)
(* one element of logData, HeaderBase + v: the lines of header variant v.  *)
(* HeaderLines gives what _parseHeaderLine leaves in frameDefs and         *)
(* sysConfig after reading those lines.                                    *)
(***************************************************************************)
HeaderBase == 1000

IsStartMarker(b) == b >= HeaderBase

fieldDef(names, predictors, encodings) ==
    [present |-> TRUE, name |-> names, count |-> Len(names),
     predictor |-> predictors, encoding |-> encodings]

MainNames == <<"loopIteration", "time", "setpoint[0]">>

\* A field takes five bytes at most and a group of eight TAG8_8SVB fields one
\* byte more than its fields: two fields and LongGroups groups are the
\* fewest that take more than FLIGHT_LOG_MAX_FRAME_LENGTH bytes with the marker.
LongGroups == (FLIGHT_LOG_MAX_FRAME_LENGTH - 11) \div 41 + 1

LongFieldCount == 2 + 8 * LongGroups

\* Field I: absolute iteration and time; Field P: iteration by increment, time
\* as a signed delta to the straight-line prediction.
GoodI == fieldDef(MainNames,
                  <<FLIGHT_LOG_FIELD_PREDICTOR_0, FLIGHT_LOG_FIELD_PREDICTOR_0,
                    FLIGHT_LOG_FIELD_PREDICTOR_0>>,
                  <<FLIGHT_LOG_FIELD_ENCODING_UNSIGNED_VB,
                    FLIGHT_LOG_FIELD_ENCODING_UNSIGNED_VB,
                    FLIGHT_LOG_FIELD_ENCODING_NULL>>)

GoodP == fieldDef(<<>>,
                  <<FLIGHT_LOG_FIELD_PREDICTOR_INC,
                    FLIGHT_LOG_FIELD_PREDICTOR_STRAIGHT_LINE,
                    FLIGHT_LOG_FIELD_PREDICTOR_PREVIOUS>>,
                  <<FLIGHT_LOG_FIELD_ENCODING_NULL, FLIGHT_LOG_FIELD_ENCODING_SIGNED_VB,
                    FLIGHT_LOG_FIELD_ENCODING_NULL>>)

\* A definition has two fields or more: parseCommaSeparatedString gives an
\* array only for a list with a comma in it.
GoodS == fieldDef(<<"flightModeFlags", "stateFlags">>,
                  <<FLIGHT_LOG_FIELD_PREDICTOR_0, FLIGHT_LOG_FIELD_PREDICTOR_0>>,
                  <<FLIGHT_LOG_FIELD_ENCODING_UNSIGNED_VB, FLIGHT_LOG_FIELD_ENCODING_NULL>>)

BetaflightConfig ==
    [defaultSysConfig EXCEPT !.firmwareType = "BETAFLIGHT",
                             !.firmwareVersion = <<4, 2, 0>>]

\* 1: I, P and S definitions.  2: as 1 with the PID fields disabled in
\* fields_disabled_mask.  3: no S definition.  4: the "Field P" lines are
\* missing.  5: the I-frame time field has an encoding parseFrame rejects.
\* 6: Betaflight 4.2 without a setpoint field.  7: a firmware before 4.0
\* without an rcCommand field.  8: setpoint[0] is the first field.
\* 9: the "Field I" lines are missing.  10: "Field I encoding" lists two
\* encodings for three names.  11: "Field P predictor" lists two predictors.
\* 12: "Field I name" is missing.  13: two motor fields, predicted as 1500
\* and as vbatref.  14: iteration, time and as many groups of eight
\* TAG8_8SVB fields as take an I-frame past FLIGHT_LOG_MAX_FRAME_LENGTH bytes.
\* 15: "I interval:4" and "P interval:1/2", every second iteration logged.
\* 16: "P interval:1/0".  17: a motor[1] field predicted from motor[0], and
\* no motor[0] field.  18: motor[1], predicted from motor[0], before motor[0].
\* 19: the last of three fields has the encoding TAG2_3S32.  20: three
\* TAG2_3SVARIABLE fields behind iteration and time.
HeaderVariants ==
    << [I |-> GoodI, P |-> GoodP, S |-> GoodS, sysConfig |-> BetaflightConfig],
       [I |-> GoodI, P |-> GoodP, S |-> GoodS,
        sysConfig |-> [BetaflightConfig EXCEPT !.fields_disabled_mask = 1]],
       [I |-> GoodI, P |-> GoodP, S |-> NoDef, sysConfig |-> BetaflightConfig],
       [I |-> GoodI, P |-> NoDef, S |-> GoodS, sysConfig |-> BetaflightConfig],
       [I |-> [GoodI EXCEPT !.encoding[2] = 4], P |-> GoodP, S |-> GoodS,
        sysConfig |-> BetaflightConfig],
       [I |-> [GoodI EXCEPT !.name = <<"loopIteration", "time", "rcCommand[0]">>],
        P |-> GoodP, S |-> GoodS, sysConfig |-> BetaflightConfig],
       [I |-> GoodI, P |-> GoodP, S |-> GoodS, sysConfig |-> defaultSysConfig],
       [I |-> [GoodI EXCEPT !.name = <<"setpoint[0]", "time", "loopIteration">>],
        P |-> GoodP, S |-> GoodS, sysConfig |-> BetaflightConfig],
       [I |-> NoDef, P |-> GoodP, S |-> GoodS, sysConfig |-> BetaflightConfig],
       [I |-> [GoodI EXCEPT !.encoding = <<FLIGHT_LOG_FIELD_ENCODING_UNSIGNED_VB,
                                           FLIGHT_LOG_FIELD_ENCODING_UNSIGNED_VB>>],
        P |-> GoodP, S |-> GoodS, sysConfig |-> BetaflightConfig],
       [I |-> GoodI,
        P |-> [GoodP EXCEPT !.predictor = <<FLIGHT_LOG_FIELD_PREDICTOR_INC,
                                            FLIGHT_LOG_FIELD_PREDICTOR_STRAIGHT_LINE>>],
        S |-> GoodS, sysConfig |-> BetaflightConfig],
       [I |-> [GoodI EXCEPT !.name = <<>>, !.count = 0],
        P |-> GoodP, S |-> GoodS, sysConfig |-> BetaflightConfig],
       [I |-> fieldDef(MainNames \o <<"motor[0]", "motor[1]">>,
                       GoodI.predictor \o <<FLIGHT_LOG_FIELD_PREDICTOR_1500,
                                            FLIGHT_LOG_FIELD_PREDICTOR_VBATREF>>,
                       GoodI.encoding \o <<FLIGHT_LOG_FIELD_ENCODING_NULL,
                                           FLIGHT_LOG_FIELD_ENCODING_NULL>>),
        P |-> fieldDef(<<>>,
                       GoodP.predictor \o <<FLIGHT_LOG_FIELD_PREDICTOR_PREVIOUS,
                                            FLIGHT_LOG_FIELD_PREDICTOR_PREVIOUS>>,
                       GoodP.encoding \o <<FLIGHT_LOG_FIELD_ENCODING_NULL,
                                           FLIGHT_LOG_FIELD_ENCODING_NULL>>),
        S |-> GoodS, sysConfig |-> BetaflightConfig],
       [I |-> fieldDef([k \in 1..LongFieldCount |->
                          IF k <= 2 THEN MainNames[k] ELSE ToString(k - 1)],
                       [k \in 1..LongFieldCount |-> FLIGHT_LOG_FIELD_PREDICTOR_0],
                       [k \in 1..LongFieldCount |->
                          IF k <= 2 THEN FLIGHT_LOG_FIELD_ENCODING_UNSIGNED_VB
                          ELSE FLIGHT_LOG_FIELD_ENCODING_TAG8_8SVB]),
        P |-> fieldDef(<<>>,
                       [k \in 1..LongFieldCount |-> FLIGHT_LOG_FIELD_PREDICTOR_PREVIOUS],
                       [k \in 1..LongFieldCount |-> FLIGHT_LOG_FIELD_ENCODING_NULL]),
        S |-> NoDef, sysConfig |-> BetaflightConfig],
       [I |-> GoodI, P |-> GoodP, S |-> GoodS,
        sysConfig |-> [BetaflightConfig EXCEPT !.frameIntervalI = 4,
                                               !.frameIntervalPDenom = 2]],
       [I |-> GoodI, P |-> GoodP, S |-> GoodS,
        sysConfig |-> [BetaflightConfig EXCEPT !.frameIntervalPDenom = 0]],
       [I |-> fieldDef(<<"loopIteration", "time", "motor[1]">>,
                       <<FLIGHT_LOG_FIELD_PREDICTOR_0, FLIGHT_LOG_FIELD_PREDICTOR_0,
                         FLIGHT_LOG_FIELD_PREDICTOR_MOTOR_0>>,
                       <<FLIGHT_LOG_FIELD_ENCODING_UNSIGNED_VB,
                         FLIGHT_LOG_FIELD_ENCODING_UNSIGNED_VB,
                         FLIGHT_LOG_FIELD_ENCODING_UNSIGNED_VB>>),
        P |-> GoodP, S |-> GoodS, sysConfig |-> BetaflightConfig],
       [I |-> fieldDef(<<"loopIteration", "time", "motor[1]", "motor[0]">>,
                       <<FLIGHT_LOG_FIELD_PREDICTOR_0, FLIGHT_LOG_FIELD_PREDICTOR_0,
                         FLIGHT_LOG_FIELD_PREDICTOR_MOTOR_0, FLIGHT_LOG_FIELD_PREDICTOR_0>>,
                       <<FLIGHT_LOG_FIELD_ENCODING_UNSIGNED_VB,
                         FLIGHT_LOG_FIELD_ENCODING_UNSIGNED_VB,
                         FLIGHT_LOG_FIELD_ENCODING_UNSIGNED_VB,
                         FLIGHT_LOG_FIELD_ENCODING_UNSIGNED_VB>>),
        P |-> fieldDef(<<>>,
                       GoodP.predictor \o <<FLIGHT_LOG_FIELD_PREDICTOR_PREVIOUS>>,
                       GoodP.encoding \o <<FLIGHT_LOG_FIELD_ENCODING_NULL>>),
        S |-> GoodS, sysConfig |-> BetaflightConfig],
       [I |-> [GoodI EXCEPT !.encoding[3] = FLIGHT_LOG_FIELD_ENCODING_TAG2_3S32],
        P |-> GoodP, S |-> GoodS, sysConfig |-> BetaflightConfig],
       [I |-> fieldDef(<<"loopIteration", "time", "gyroADC[0]", "gyroADC[1]", "gyroADC[2]">>,
                       [k \in 1..5 |-> FLIGHT_LOG_FIELD_PREDICTOR_0],
                       [k \in 1..5 |-> IF k <= 2 THEN FLIGHT_LOG_FIELD_ENCODING_UNSIGNED_VB
                                       ELSE FLIGHT_LOG_FIELD_ENCODING_TAG2_3SVARIABLE]),
        P |-> fieldDef(<<>>,
                       GoodP.predictor \o <<FLIGHT_LOG_FIELD_PREDICTOR_PREVIOUS,
                                            FLIGHT_LOG_FIELD_PREDICTOR_PREVIOUS>>,
                       GoodP.encoding \o <<FLIGHT_LOG_FIELD_ENCODING_NULL,
                                           FLIGHT_LOG_FIELD_ENCODING_NULL>>),
        S |-> GoodS, sysConfig |-> BetaflightConfig] >>

HeaderLines(b) == HeaderVariants[b - HeaderBase]

CharH == 72
CharSpace == 32
CharNewline == 10

\* readLine as _parseHeaderLine uses it: up to a line break, a 0 or the end.
RECURSIVE lineEnd(_, _)
lineEnd(pos, end) ==
    IF pos >= end THEN end
    ELSE IF logData[pos + 1] \in {CharNewline, 0} THEN pos + 1
    ELSE lineEnd(pos + 1, end)

RECURSIVE parseHeaderLoop(_)
parseHeaderLoop(ps) ==
    LET r == readChar(ps)
        p1 == [ps EXCEPT !.pos = r.pos, !.eof = r.eof]
        withLines(h) ==
            [p1 EXCEPT !.frameDefs = [I |-> h.I, P |-> h.P, S |-> h.S],
                       !.sysConfig = h.sysConfig]
    IN CASE r.v = EOF -> p1
         [] IsStartMarker(r.v) -> parseHeaderLoop(withLines(HeaderLines(r.v)))
         [] r.v = CharH ->
              IF p1.pos < p1.end /\ logData[p1.pos + 1] = CharSpace
              THEN parseHeaderLoop([p1 EXCEPT !.pos = lineEnd(p1.pos + 1, p1.end)])
              ELSE parseHeaderLoop(p1)
         [] frameTypes(r.v) # "" -> [p1 EXCEPT !.pos = r.pos - 1]
         [] OTHER -> parseHeaderLoop(p1)

_resetAllState(ps) ==
    resetDataState([ps EXCEPT !.stats = resetStats,
                              !.sysConfig = defaultSysConfig,
                              !.frameDefs = [I |-> NoDef, P |-> NoDef, S |-> NoDef]])

parseHeader(ps, startOffset, endOffset) ==
    LET \* the statements after the loop, on the parser p1 the loop leaves
        finish(p1) ==
            LET inherit == [p1 EXCEPT !.frameDefs.P.count = p1.frameDefs.I.count,
                                      !.frameDefs.P.name = p1.frameDefs.I.name]
            IN IF ~_isFrameDefComplete(p1.frameDefs.I)
               THEN [p1 EXCEPT !.thrown = "Log is missing required definitions for I frames, header may be corrupt"]
               ELSE IF ~p1.frameDefs.P.present
               THEN [p1 EXCEPT !.thrown = "Log is missing required definitions for P frames, header may be corrupt"]
               ELSE IF ~_isFrameDefComplete(inherit.frameDefs.P)
               THEN [inherit EXCEPT !.thrown = "Log is missing required definitions for P frames, header may be corrupt"]
               ELSE [inherit EXCEPT
                       !.mainHistoryRing = <<newArray(inherit.frameDefs.I.count),
                                             newArray(inherit.frameDefs.I.count),
                                             newArray(inherit.frameDefs.I.count)>>,
                       !.lastSlow = IF inherit.frameDefs.S.present
                                    THEN newArray(inherit.frameDefs.S.count) ELSE <<>>]
    IN finish(parseHeaderLoop(_setStreamRange(_resetAllState(ps), startOffset, endOffset)))

\* new FlightLogParser(logData)
newParser ==
    [pos |-> 0, start |-> 0, end |-> Len(logData), eof |-> FALSE,
     frameDefs |-> [I |-> NoDef, P |-> NoDef, S |-> NoDef],
     sysConfig |-> defaultSysConfig,
     mainHistoryRing |-> <<>>, mainHistory |-> <<0, 0, 0>>,
     mainStreamIsValid |-> FALSE,
     lastEvent |-> NullEvent, lastSlow |-> <<>>, lastSkippedFrames |-> 0,
     lastMainFrameIteration |-> -1, lastMainFrameTime |-> -1,
     stats |-> resetStats,
     prematureEof |-> FALSE, frameStart |-> 0, lastFrameType |-> "",
     running |-> FALSE, hang |-> FALSE, thrown |-> "", delivered |-> <<>>,
     pc |-> "constructed"]

(***************************************************************************)
(* parseLogData: the dispatcher.                                           *)
(***************************************************************************)
\* The statements before the loop.
parseLogDataBegin(ps, startOffset, endOffset) ==
    [_setStreamRange(invalidateMainStream(ps), startOffset, endOffset)
        EXCEPT !.prematureEof = FALSE, !.frameStart = 0, !.lastFrameType = "",
               !.running = TRUE, !.thrown = ""]

\* The part of an iteration after the previous frame was completed.
dispatch(ps, command) ==
    IF command = EOF
    THEN [ps EXCEPT !.running = FALSE, !.stats.totalBytes = @ + (ps.end - ps.start)]
    ELSE LET p1 == [ps EXCEPT !.frameStart = ps.pos - 1]
             frameType == frameTypes(command)
             parsed(p2) ==
                 IF p2.thrown # "" \/ p2.hang THEN [p2 EXCEPT !.running = FALSE]
                 ELSE [p2 EXCEPT !.prematureEof = @ \/ p2.eof]
         IN IF frameType # "" /\ (command = CharE \/ p1.frameDefs[frameType].present)
            THEN parsed(parse([p1 EXCEPT !.lastFrameType = frameType], frameType))
            ELSE [p1 EXCEPT !.mainStreamIsValid = FALSE, !.lastFrameType = ""]

\* The iteration with the search going on behind the byte just read, not
\* behind the first byte of the corrupt frame.
parseLogDataIterationNoRewind(ps) ==
    LET r == readChar(ps)
        command == r.v
        p1 == [ps EXCEPT !.pos = r.pos, !.eof = r.eof]
        marker == ps.lastFrameType
        lastFrameSize == p1.pos - ps.frameStart
        looksLikeFrameCompleted ==
            frameTypes(command) # "" \/ (~ps.prematureEof /\ command = EOF)
        p2 == [p1 EXCEPT !.stats.frame[marker].exists = TRUE]
        \* if (frameAccepted) { bytes += lastFrameSize; validCount++ }
        counted(c) ==
            IF c.accepted
            THEN [c.ps EXCEPT !.stats.frame[marker].bytes = @ + lastFrameSize,
                              !.stats.frame[marker].validCount = @ + 1]
            ELSE c.ps
    IN IF marker # ""
            /\ ~(lastFrameSize <= FLIGHT_LOG_MAX_FRAME_LENGTH /\ looksLikeFrameCompleted)
       THEN \* the previous frame was corrupt: rewind, and `continue`
            onFrameReady(
              [p2 EXCEPT !.mainStreamIsValid = FALSE,
                         !.stats.frame[marker].corruptCount = @ + 1,
                         !.stats.totalCorruptedFrames = @ + 1,
                         !.lastFrameType = "",
                         !.prematureEof = FALSE,
                         !.eof = FALSE],
              FALSE, NullFrame, NullEvent, marker, ps.frameStart, lastFrameSize)
       ELSE dispatch(IF marker # ""
                     THEN counted(complete(p2, marker, ps.frameStart, p2.pos))
                     ELSE p1,
                     command)

\* One iteration of the while loop.
parseLogDataIteration(ps) ==
    LET r == readChar(ps)
        command == r.v
        p1 == [ps EXCEPT !.pos = r.pos, !.eof = r.eof]
        marker == ps.lastFrameType
        lastFrameSize == p1.pos - ps.frameStart
        looksLikeFrameCompleted ==
            frameTypes(command) # "" \/ (~ps.prematureEof /\ command = EOF)
        p2 == [p1 EXCEPT !.stats.frame[marker].exists = TRUE]
        \* if (frameAccepted) { bytes += lastFrameSize; validCount++ }
        counted(c) ==
            IF c.accepted
            THEN [c.ps EXCEPT !.stats.frame[marker].bytes = @ + lastFrameSize,
                              !.stats.frame[marker].validCount = @ + 1]
            ELSE c.ps
    IN IF marker # ""
            /\ ~(lastFrameSize <= FLIGHT_LOG_MAX_FRAME_LENGTH /\ looksLikeFrameCompleted)
       THEN \* the previous frame was corrupt: rewind, and `continue`
            onFrameReady(
              [p2 EXCEPT !.mainStreamIsValid = FALSE,
                         !.stats.frame[marker].corruptCount = @ + 1,
                         !.stats.totalCorruptedFrames = @ + 1,
                         !.pos = ps.frameStart + 1,
                         !.lastFrameType = "",
                         !.prematureEof = FALSE,
                         !.eof = FALSE],
              FALSE, NullFrame, NullEvent, marker, ps.frameStart, lastFrameSize)
       ELSE dispatch(IF marker # ""
                     THEN counted(complete(p2, marker, ps.frameStart, p2.pos))
                     ELSE p1,
                     command)

\* The loop, run until it breaks or an exception leaves it.
RECURSIVE parseLogDataLoop(_)
parseLogDataLoop(ps) ==
    IF ps.running THEN parseLogDataLoop(parseLogDataIteration(ps)) ELSE ps

parseLogData(ps, startOffset, endOffset) ==
    parseLogDataLoop(parseLogDataBegin(ps, startOffset, endOffset))

(***************************************************************************)
(* Log data: what the flight controller writes.  The frames are encoded    *)
(* as the readers above decode them.                                       *)
(***************************************************************************)
RECURSIVE writeUnsignedVB(_)
writeUnsignedVB(n) ==
    IF n < 128 THEN <<n>> ELSE <<(n % 128) + 128>> \o writeUnsignedVB(n \div 128)

ZigZagEncode(v) == IF v >= 0 THEN 2 * v ELSE (0 - 2 * v) - 1

writeSignedVB(v) == writeUnsignedVB(ZigZagEncode(v))

IFrame(iteration, time) == <<CharI>> \o writeUnsignedVB(iteration) \o writeUnsignedVB(time)
PFrame(timeDelta) == <<CharP>> \o writeSignedVB(timeDelta)
SFrame(flags) == <<CharS>> \o writeUnsignedVB(flags)
EventSyncBeep(time) == <<CharE, SYNC_BEEP>> \o writeUnsignedVB(time)
EventDisarm(reason) == <<CharE, DISARM>> \o writeUnsignedVB(reason)
EventLoggingResume(iteration, time) ==
    <<CharE, LOGGING_RESUME>> \o writeUnsignedVB(iteration) \o writeUnsignedVB(time)
EventLogEnd == <<CharE, LOG_END>> \o END_OF_LOG_MESSAGE

RECURSIVE Flatten(_)
Flatten(ss) == IF ss = <<>> THEN <<>> ELSE Head(ss) \o Flatten(Tail(ss))

\* The pieces a data section is made of in the dispatcher's specification:
\* frames in and out of order, jumps at and past the limits, a resume event,
\* the end marker, an end marker without its message, a stray byte and a
\* frame cut short.
ParsePieces ==
    { IFrame(1, 10), IFrame(2, 20), IFrame(0, 5),
      IFrame(1 + MAXIMUM_ITERATION_JUMP_BETWEEN_FRAMES, 10),
      PFrame(1), PFrame(-2),
      PFrame(MAXIMUM_TIME_JUMP_BETWEEN_FRAMES),
      PFrame(MAXIMUM_TIME_JUMP_BETWEEN_FRAMES + 1),
      SFrame(3),
      EventLoggingResume(6000, 30),
      EventLogEnd,
      <<CharE, LOG_END, 0>>,
      <<0>>,
      <<CharI, 129>> }

MaxPieces == 3

ParseHeaders == {1, 3, 4, 9, 10, 11, 12, 15, 16}

\* An I-frame of header 14, every field 0 in five bytes, the first `short`
\* fields in four, every group after its byte of eight tags: with its marker
\* it has FLIGHT_LOG_MAX_FRAME_LENGTH + 1 - short bytes.
LongIFrame(short) ==
    <<CharI>> \o Flatten([k \in 1..LongFieldCount |->
                            IF k <= short THEN <<128, 128, 128, 0>>
                            ELSE IF k > 2 /\ k % 8 = 3 THEN <<255, 128, 128, 128, 128, 0>>
                            ELSE <<128, 128, 128, 128, 0>>])

\* An I-frame of the headers 17 to 20: iteration, time 10 and the motor
\* fields, or a group of selector 0, or a group of selector 2.
MotorIFrame(h, iteration) ==
    IFrame(iteration, 10)
      \o (CASE h = 17 -> <<7>> [] h = 18 -> <<7, 3>> [] h = 19 -> <<27>>
             [] h = 20 -> <<133, 66, 3>>)

ParseInputs ==
    { <<HeaderBase + h>> \o Flatten(ps) :
        h \in ParseHeaders,
        ps \in UNION { [1..n -> ParsePieces] : n \in 0..MaxPieces } }
      \cup { <<HeaderBase + 14>> \o Flatten(ps) :
               ps \in UNION { [1..n -> {LongIFrame(0), LongIFrame(1), LongIFrame(2)}]
                              : n \in 1..(MaxPieces - 1) } }
      \cup UNION { { <<HeaderBase + h>> \o Flatten(ps) :
                       ps \in UNION { [1..n -> {MotorIFrame(h, 1), MotorIFrame(h, 2),
                                                PFrame(1)}]
                                      : n \in 1..(MaxPieces - 1) } } :
                   h \in {17, 18, 19, 20} }

(***************************************************************************)
(* The dispatcher's specification: one parser over one sub-log, driven as  *)
(* FlightLogIndex._parseSubLog drives it, one loop iteration per step.     *)
(***************************************************************************)
ParseInit ==
    /\ logData \in ParseInputs
    /\ parser = newParser
    /\ facade = <<>>
    /\ calls = 0

ParseHeaderStep ==
    /\ parser.pc = "constructed"
    /\ parser' = [parseHeader(parser, 0, Len(logData)) EXCEPT !.pc = "header"]
    /\ UNCHANGED <<logData, facade, calls>>

ParseLogDataStart ==
    /\ parser.pc = "header"
    /\ parser.thrown = ""
    /\ parser' = [parseLogDataBegin(parser, Undef, Undef) EXCEPT !.pc = "data"]
    /\ UNCHANGED <<logData, facade, calls>>

ParseLogDataStep ==
    /\ parser.pc = "data"
    /\ parser.running
    /\ parser' = parseLogDataIteration(parser)
    /\ UNCHANGED <<logData, facade, calls>>

ParseNext == ParseHeaderStep \/ ParseLogDataStart \/ ParseLogDataStep

ParseSpec == ParseInit /\ [][ParseNext]_vars

(***************************************************************************)
(* FlightLogIndex.                                                         *)
(***************************************************************************)
\* allIndicesOf(FLIGHT_LOG_START_MARKER): the offsets of the start markers,
\* then the end of the data.
allIndicesOf ==
    LET RECURSIVE from(_)
        from(pos) ==
            IF pos >= Len(logData) THEN <<Len(logData)>>
            ELSE IF IsStartMarker(logData[pos + 1]) THEN <<pos>> \o from(pos + 1)
            ELSE from(pos + 1)
    IN from(0)

buildLogOffsetsIndex == allIndicesOf

getLogBeginOffset(index) == At(buildLogOffsetsIndex, index)

getLogCount == Len(buildLogOffsetsIndex) - 1

\* minTime and maxTime are `false` until a main frame is seen.
NoTime == Undef

\* Math.round(total / n) for n > 0.
\* Math.round, were it to drop the fraction.
RoundDivTruncated(total, n) == total \div n

RoundDiv(total, n) == (2 * total + n) \div (2 * n)

RECURSIVE SumAt(_, _)
SumAt(frame, fields) ==
    IF fields = <<>> THEN 0 ELSE Plus(At(frame, Head(fields)), SumAt(frame, Tail(fields)))

\* The motor fields of the main frame definition, motor[0] .. motor[7].
motorFieldsOf(mainFrameDef) ==
    LET names == <<"motor[0]", "motor[1]", "motor[2]", "motor[3]",
                   "motor[4]", "motor[5]", "motor[6]", "motor[7]">>
        RECURSIVE pick(_)
        pick(j) == IF j > 8 THEN <<>>
                   ELSE IF nameToIndex(mainFrameDef, names[j]) # Undef
                   THEN <<nameToIndex(mainFrameDef, names[j])>> \o pick(j + 1)
                   ELSE pick(j + 1)
    IN pick(1)

\* The callback _parseSubLog gives the parser, applied to one delivery.
indexOnFrameReady(ix, d, motorFields) ==
    IF ~d.frameValid THEN ix
    ELSE CASE IsMain(d) ->
                LET frameTime == At(d.frame, FLIGHT_LOG_FIELD_INDEX_TIME)
                    i1 == [ix EXCEPT
                             !.minTime = IF @ = NoTime THEN frameTime ELSE @,
                             !.maxTime = IF @ = NoTime \/ Lt(@, frameTime)
                                         THEN frameTime ELSE @]
                IN IF d.frameType = "I"
                   THEN [(IF i1.iframeCount % 4 = 0
                          THEN [i1 EXCEPT
                                  !.times = Append(@, frameTime),
                                  !.offsets = Append(@, d.frameOffset),
                                  !.avgThrottle =
                                      IF motorFields # <<>>
                                      THEN Append(@, RoundDiv(SumAt(d.frame, motorFields),
                                                              Len(motorFields)))
                                      ELSE @,
                                  !.initialSlow = Append(@, ix.lastSlow)]
                          ELSE i1)
                         EXCEPT !.iframeCount = @ + 1]
                   ELSE i1
           [] d.frameType = "E" ->
                [ix EXCEPT
                   !.hasEvent = IF Len(ix.times) > 0 THEN @ \cup {Len(ix.times) - 1} ELSE @,
                   !.sawEndMarker = @ \/ d.event.event = LOG_END]
           [] d.frameType = "S" -> [ix EXCEPT !.lastSlow = d.frame]

RECURSIVE indexDeliveries(_, _, _, _)
indexDeliveries(ix, delivered, k, motorFields) ==
    IF k > Len(delivered) THEN ix
    ELSE indexDeliveries(indexOnFrameReady(ix, delivered[k], motorFields),
                         delivered, k + 1, motorFields)

\* _parseSubLog: the directory of one sub-log and the parser as it leaves it.
\* `delivered` keeps the deliveries of the indexing pass, for the properties.
_parseSubLog(ps, subLogIndex) ==
    LET intraIndex == [times |-> <<>>, offsets |-> <<>>, avgThrottle |-> <<>>,
                       initialSlow |-> <<>>, hasInitialSlow |-> TRUE,
                       hasEvent |-> {}, minTime |-> NoTime, maxTime |-> NoTime,
                       error |-> "", stats |-> resetStats, hasStats |-> FALSE,
                       iframeCount |-> 0, lastSlow |-> <<>>, sawEndMarker |-> FALSE,
                       delivered |-> <<>>, hang |-> FALSE]
        \* "Did we not find any events in this log?"
        noData(i1) ==
            IF i1.minTime = NoTime
            THEN [i1 EXCEPT !.error = @ \o (IF i1.sawEndMarker
                                            THEN ": Logging paused, no data"
                                            ELSE ": Log truncated, no data")]
            ELSE i1
        \* parseHeader threw: parsedHeader = false
        corrupt(h) ==
            [directory |-> noData([intraIndex EXCEPT !.error = h.thrown]), ps |-> h]
        \* parsedHeader = true, and parseLogData left the parser p
        indexed(p) ==
            [directory |->
                noData([indexDeliveries(intraIndex, p.delivered, 1,
                                        motorFieldsOf(p.frameDefs.I))
                          EXCEPT !.error = p.thrown,
                                 !.hasInitialSlow = p.frameDefs.S.present,
                                 !.initialSlow = IF p.frameDefs.S.present THEN @ ELSE <<>>,
                                 !.stats = p.stats, !.hasStats = TRUE,
                                 !.delivered = p.delivered, !.hang = p.hang]),
             ps |-> p]
        parsed(h) ==
            IF h.thrown # "" THEN corrupt(h) ELSE indexed(parseLogData(h, Undef, Undef))
    IN parsed(parseHeader([ps EXCEPT !.thrown = "", !.delivered = <<>>],
                          getLogBeginOffset(subLogIndex),
                          getLogBeginOffset(subLogIndex + 1)))

\* _buildIntraframeDirectories: one parser over the sub-logs in order.
RECURSIVE buildDirectoriesFrom(_, _)
buildDirectoriesFrom(ps, i) ==
    IF i >= getLogCount THEN <<>>
    ELSE LET push(r) == <<r.directory>> \o buildDirectoriesFrom(r.ps, i + 1)
         IN push(_parseSubLog(ps, i))

_buildIntraframeDirectories == buildDirectoriesFrom(newParser, 0)

(***************************************************************************)
(* FlightLog, the facade: field names and chunk decoding.                  *)
(***************************************************************************)
\* JavaScript's null, where the code tells it from undefined.
Null == Undef - 1

ADDITIONAL_COMPUTED_FIELD_COUNT == 20
MAX_MOTOR_NUMBER == 8

MotorNames == <<"motor[0]", "motor[1]", "motor[2]", "motor[3]",
                "motor[4]", "motor[5]", "motor[6]", "motor[7]">>
MotorLegacyNames == <<"motorLegacy[0]", "motorLegacy[1]", "motorLegacy[2]",
                      "motorLegacy[3]", "motorLegacy[4]", "motorLegacy[5]",
                      "motorLegacy[6]", "motorLegacy[7]">>

HasBit(mask, b) == (mask \div Pow2(b)) % 2 = 1

isFieldDisabled(sysConfig) ==
    [PID |-> HasBit(sysConfig.fields_disabled_mask, 0),
     SETPOINT |-> HasBit(sysConfig.fields_disabled_mask, 2),
     GYRO |-> HasBit(sysConfig.fields_disabled_mask, 7),
     MOTORS |-> HasBit(sysConfig.fields_disabled_mask, 10)]

Contains(names, n) == \E i \in 1..Len(names) : names[i] = n

_buildFieldNames(ps) ==
    LET disabled == isFieldDisabled(ps.sysConfig)
        n0 == ps.frameDefs.I.name
        n1 == IF ps.frameDefs.S.present THEN n0 \o ps.frameDefs.S.name ELSE n0
        n2 == IF ~disabled.PID
              THEN n1 \o <<"axisSum[0]", "axisSum[1]", "axisSum[2]">> ELSE n1
        n3 == IF ~disabled.SETPOINT
              THEN n2 \o <<"rcCommands[0]", "rcCommands[1]", "rcCommands[2]",
                           "rcCommands[3]">>
              ELSE n2
        n4 == IF ~(disabled.GYRO \/ disabled.PID)
              THEN n3 \o <<"axisError[0]", "axisError[1]", "axisError[2]">> ELSE n3
        RECURSIVE legacy(_, _)
        legacy(names, i) ==
            IF i < MAX_MOTOR_NUMBER /\ Contains(names, MotorNames[i + 1])
            THEN legacy(Append(names, MotorLegacyNames[i + 1]), i + 1)
            ELSE names
    IN IF ~disabled.MOTORS THEN legacy(n4, 0) ELSE n4

\* this.fieldNameToIndex[name]: the last column of that name, or undefined.
fieldNameToIndex(fieldNames, n) ==
    LET at == {i \in 1..Len(fieldNames) : fieldNames[i] = n}
    IN IF at = {} THEN Undef ELSE (CHOOSE i \in at : \A j \in at : j <= i) - 1

_estimateNumMotors(fieldNames) ==
    Cardinality({j \in 1..MAX_MOTOR_NUMBER :
                    fieldNameToIndex(fieldNames, MotorNames[j]) # Undef})

\* The callback _getChunk gives the parser, applied to one delivery.  c is the
\* chunk with the callback's locals lastSlow and mainFrameIndex and the
\* entries it adds to _eventNeedsTimestamp.  frameTypes and frameOffsets
\* record, for the properties, where each stored frame came from.
chunkOnFrameReady(c, d, slowFrameLength) ==
    IF ~d.frameValid
    THEN [c EXCEPT !.gapStartsHere = @ \cup {c.mainFrameIndex - 1}]
    ELSE CASE IsMain(d) ->
                LET numOutputFields ==
                        Len(d.frame) + slowFrameLength + ADDITIONAL_COMPUTED_FIELD_COUNT
                    destFrame ==
                        [i \in 1..numOutputFields |->
                           IF i <= Len(d.frame) THEN d.frame[i]
                           ELSE IF i <= Len(d.frame) + slowFrameLength
                           THEN (IF At(c.lastSlow, i - Len(d.frame) - 1) = Undef
                                 THEN Null
                                 ELSE At(c.lastSlow, i - Len(d.frame) - 1))
                           ELSE Undef]
                IN [c EXCEPT !.frames = Append(@, destFrame),
                             !.frameTypes = Append(@, d.frameType),
                             !.frameOffsets = Append(@, d.frameOffset),
                             !.mainFrameIndex = @ + 1]
           [] d.frameType = "E" ->
                LET needs == d.event.time = Undef \/ d.event.time = 0
                IN [c EXCEPT
                      !.gapStartsHere = IF d.event.event = LOGGING_RESUME
                                        THEN @ \cup {c.mainFrameIndex - 1} ELSE @,
                      !.needsTimestamp = IF needs THEN Append(@, Len(c.events) + 1)
                                         ELSE @,
                      !.events = Append(@, d.event),
                      !.eventOffsets = Append(@, d.frameOffset)]
           [] d.frameType = "S" ->
                [c EXCEPT !.lastSlow =
                     [i \in 1..Max(Len(@), Len(d.frame)) |->
                        IF i <= Len(d.frame) THEN d.frame[i] ELSE @[i]]]

RECURSIVE chunkDeliveries(_, _, _, _)
chunkDeliveries(c, delivered, k, slowFrameLength) ==
    IF k > Len(delivered) THEN c
    ELSE chunkDeliveries(chunkOnFrameReady(c, delivered[k], slowFrameLength),
                         delivered, k + 1, slowFrameLength)

\* _getChunk, were every chunk to start without slow-frame values.
_getChunkWithoutInitialSlow(ps, directory, logIndex, chunkIndex) ==
    LET chunkStartOffset == directory.offsets[chunkIndex + 1]
        chunkEndOffset ==
            IF chunkIndex + 1 < Len(directory.offsets)
            THEN directory.offsets[chunkIndex + 2]
            ELSE getLogBeginOffset(logIndex + 1)
        slowFrameLength == IF ps.frameDefs.S.present THEN ps.frameDefs.S.count ELSE 0
        chunk == [index |-> chunkIndex, frames |-> <<>>, gapStartsHere |-> {},
                  events |-> <<>>, hasAdditionalFields |-> FALSE,
                  lastSlow |-> <<>>,
                  mainFrameIndex |-> 0, needsTimestamp |-> <<>>,
                  frameTypes |-> <<>>, frameOffsets |-> <<>>, eventOffsets |-> <<>>]
        decoded(p) ==
            [chunk |-> chunkDeliveries(chunk, p.delivered, 1, slowFrameLength), ps |-> p]
    IN decoded(parseLogData(resetDataState([ps EXCEPT !.delivered = <<>>]),
                            chunkStartOffset, chunkEndOffset))

\* _getChunk, were every chunk to reach to the end of its sub-log.
_getChunkToLogEnd(ps, directory, logIndex, chunkIndex) ==
    LET chunkStartOffset == directory.offsets[chunkIndex + 1]
        chunkEndOffset == getLogBeginOffset(logIndex + 1)
        slowFrameLength == IF ps.frameDefs.S.present THEN ps.frameDefs.S.count ELSE 0
        chunk == [index |-> chunkIndex, frames |-> <<>>, gapStartsHere |-> {},
                  events |-> <<>>, hasAdditionalFields |-> FALSE,
                  lastSlow |-> IF ps.frameDefs.S.present
                               THEN directory.initialSlow[chunkIndex + 1] ELSE <<>>,
                  mainFrameIndex |-> 0, needsTimestamp |-> <<>>,
                  frameTypes |-> <<>>, frameOffsets |-> <<>>, eventOffsets |-> <<>>]
        decoded(p) ==
            [chunk |-> chunkDeliveries(chunk, p.delivered, 1, slowFrameLength), ps |-> p]
    IN decoded(parseLogData(resetDataState([ps EXCEPT !.delivered = <<>>]),
                            chunkStartOffset, chunkEndOffset))

\* _getChunk(chunkIndex) on the open sub-log logIndex with its directory.
_getChunk(ps, directory, logIndex, chunkIndex) ==
    LET chunkStartOffset == directory.offsets[chunkIndex + 1]
        chunkEndOffset ==
            IF chunkIndex + 1 < Len(directory.offsets)
            THEN directory.offsets[chunkIndex + 2]
            ELSE getLogBeginOffset(logIndex + 1)
        slowFrameLength == IF ps.frameDefs.S.present THEN ps.frameDefs.S.count ELSE 0
        chunk == [index |-> chunkIndex, frames |-> <<>>, gapStartsHere |-> {},
                  events |-> <<>>, hasAdditionalFields |-> FALSE,
                  lastSlow |-> IF ps.frameDefs.S.present
                               THEN directory.initialSlow[chunkIndex + 1] ELSE <<>>,
                  mainFrameIndex |-> 0, needsTimestamp |-> <<>>,
                  frameTypes |-> <<>>, frameOffsets |-> <<>>, eventOffsets |-> <<>>]
        decoded(p) ==
            [chunk |-> chunkDeliveries(chunk, p.delivered, 1, slowFrameLength), ps |-> p]
    IN decoded(parseLogData(resetDataState([ps EXCEPT !.delivered = <<>>]),
                            chunkStartOffset, chunkEndOffset))

(***************************************************************************)
(* FlightLog: computed fields and event times.                             *)
(***************************************************************************)
\* Math.max(min, Math.min(value, max))
constrain(value, lo, hi) == JsMax(lo, JsMin(value, hi))

\* semverGte(firmwareVersion, "4.0.0") on a version <<major, minor, patch>>
semverGte4(version) == version[1] >= 4

\* A floating-point conversion of the facade applied to a value: the model
\* keeps the term, not the number.
Float(fn, x) == [float |-> fn, of |-> x]

\* x / 10
DivTen(x) == IF x = Undef THEN Undef
             ELSE IF x % 10 = 0 THEN x \div 10 ELSE Float("/10", x)

\* The columns _injectComputedFieldsToFrame appends behind the main and slow
\* columns of srcFrame (= destFrame: the source and destination chunks are
\* the same), or the TypeError it ends with.  fields holds the column indexes
\* gyroADC, rcCommand, setpoint, axisPID and motor that _injectComputedFields
\* looks up before its loop.
computedFields(fields, sysConfig, numMotors, srcFrame) ==
    LET absent(i) == i = Undef \/ i = 0          \* !index
        term(i) == IF i # Undef THEN At(srcFrame, i) ELSE 0
        limited(sum, pidLimit) ==
            IF pidLimit > 0 THEN constrain(sum, 0 - pidLimit, pidLimit) ELSE sum
        \* axisPID is an array of arrays: !axisPID[0] is never true
        pidSum(axis) ==
            limited(Plus(Plus(term(fields.axisPID[axis][1]), term(fields.axisPID[axis][2])),
                         Plus(term(fields.axisPID[axis][3]), term(fields.axisPID[axis][4]))),
                    IF axis < 3 THEN sysConfig.pidSumLimit ELSE sysConfig.pidSumLimitYaw)
        betaflight4 == sysConfig.firmwareType = "BETAFLIGHT"
                         /\ semverGte4(sysConfig.firmwareVersion)
        rate(axis) == IF fields.rcCommand[axis] # Undef
                      THEN Float("rcCommandRawToDegreesPerSecond",
                                 At(srcFrame, fields.rcCommand[axis]))
                      ELSE 0
        error(rc, axis) ==
            Float("-", <<rc,
                         IF fields.gyroADC[axis] # Undef
                         THEN Float("gyroRawToDegreesPerSecond",
                                    At(srcFrame, fields.gyroADC[axis]))
                         ELSE 0>>)
        errors(rcs) ==
            IF ~absent(fields.gyroADC[1])
            THEN <<error(rcs[1], 1), error(rcs[2], 2), error(rcs[3], 3)>> ELSE <<>>
        legacy == IF ~absent(fields.motor[1])
                  THEN [m \in 1..numMotors |-> At(srcFrame, fields.motor[m])] ELSE <<>>
        columns(rcs) ==
            <<pidSum(1), pidSum(2), pidSum(3)>> \o rcs \o errors(rcs) \o legacy
    IN IF (IF betaflight4 THEN absent(fields.setpoint[1]) ELSE absent(fields.rcCommand[1]))
       THEN [v |-> <<>>, thrown |-> "TypeError: Cannot read properties of null"]
       ELSE [v |-> columns(IF betaflight4
                           THEN <<At(srcFrame, fields.setpoint[1]),
                                  At(srcFrame, fields.setpoint[2]),
                                  At(srcFrame, fields.setpoint[3]),
                                  DivTen(At(srcFrame, fields.setpoint[4]))>>
                           ELSE <<rate(1), rate(2), rate(3),
                                  IF fields.rcCommand[4] # Undef
                                  THEN Float("rcCommandRawToThrottle",
                                             At(srcFrame, fields.rcCommand[4]))
                                  ELSE 0>>),
             thrown |-> ""]

_injectComputedFieldsToFrame(fields, sysConfig, numMotors, frame) ==
    LET fieldIndex == Len(frame) - ADDITIONAL_COMPUTED_FIELD_COUNT
        spliced(c) ==
            IF c.thrown # "" THEN [v |-> frame, thrown |-> c.thrown]
            ELSE [v |-> SubSeq(frame, 1, fieldIndex) \o c.v, thrown |-> ""]
    IN spliced(computedFields(fields, sysConfig, numMotors, frame))

\* _injectComputedFields(allChunks, allChunks)
_injectComputedFields(fieldNames, sysConfig, numMotors, chunks) ==
    LET ix(n) == fieldNameToIndex(fieldNames, n)
        fields ==
            [gyroADC |-> <<ix("gyroADC[0]"), ix("gyroADC[1]"), ix("gyroADC[2]")>>,
             rcCommand |-> <<ix("rcCommand[0]"), ix("rcCommand[1]"), ix("rcCommand[2]"),
                             ix("rcCommand[3]")>>,
             setpoint |-> <<ix("setpoint[0]"), ix("setpoint[1]"), ix("setpoint[2]"),
                            ix("setpoint[3]")>>,
             axisPID |->
                 << <<ix("axisP[0]"), ix("axisI[0]"), ix("axisD[0]"), ix("axisF[0]")>>,
                    <<ix("axisP[1]"), ix("axisI[1]"), ix("axisD[1]"), ix("axisF[1]")>>,
                    <<ix("axisP[2]"), ix("axisI[2]"), ix("axisD[2]"), ix("axisF[2]")>> >>,
             motor |-> [j \in 1..8 |-> ix(MotorNames[j])]]
        inject(with, f) == _injectComputedFieldsToFrame(with, sysConfig, numMotors, f)
        thrownIn(with, c) ==
            \E i \in 1..Len(c.frames) : inject(with, c.frames[i]).thrown # ""
        injected(with) ==
            IF \E k \in 1..Len(chunks) :
                  ~chunks[k].hasAdditionalFields /\ thrownIn(with, chunks[k])
            THEN [v |-> chunks, thrown |-> "TypeError: Cannot read properties of null"]
            ELSE [v |-> [k \in 1..Len(chunks) |->
                           IF chunks[k].hasAdditionalFields THEN chunks[k]
                           ELSE [chunks[k] EXCEPT
                                   !.hasAdditionalFields = TRUE,
                                   !.frames = [i \in 1..Len(@) |-> inject(with, @[i]).v]]],
                  thrown |-> ""]
    IN injected(fields)

\* _addMissingEventTimes(chunks), over the entries the chunks' decoding left
\* in _eventNeedsTimestamp.
_addMissingEventTimes(chunks) ==
    LET n == Len(chunks)
        nextTime(chunkIndex) ==
            IF chunkIndex + 1 < n
            THEN At(chunks[chunkIndex + 2].frames[1], FLIGHT_LOG_FIELD_INDEX_TIME)
            ELSE At(chunks[n].frames[Len(chunks[n].frames)], FLIGHT_LOG_FIELD_INDEX_TIME)
        needs(k) == chunks[k].needsTimestamp # <<>>
        thrown == \E k \in 1..n :
                     needs(k) /\ (IF k < n THEN chunks[k + 1].frames = <<>>
                                  ELSE chunks[n].frames = <<>>)
    IN IF thrown
       THEN [v |-> chunks, thrown |-> "TypeError: Cannot read properties of undefined"]
       ELSE [v |-> [k \in 1..n |->
                      [chunks[k] EXCEPT
                         !.events = [e \in 1..Len(@) |->
                                       IF \E j \in 1..Len(chunks[k].needsTimestamp) :
                                             chunks[k].needsTimestamp[j] = e
                                       THEN [@[e] EXCEPT !.time = nextTime(k - 1)]
                                       ELSE @[e]],
                         !.needsTimestamp = <<>>]],
             thrown |-> ""]

\* The chunks of the open sub-log, decoded in order by one parser.
RECURSIVE decodeChunksFrom(_, _, _, _)
decodeChunksFrom(ps, directory, logIndex, chunkIndex) ==
    IF chunkIndex >= Len(directory.offsets) \/ ps.thrown # ""
    THEN [chunks |-> <<>>, ps |-> ps]
    ELSE LET push(r) ==
                 [decodeChunksFrom(r.ps, directory, logIndex, chunkIndex + 1)
                    EXCEPT !.chunks = <<r.chunk>> \o @]
         IN push(_getChunk(ps, directory, logIndex, chunkIndex))

(***************************************************************************)
(* Utils: the binary searches.                                             *)
(***************************************************************************)
RECURSIVE binarySearchOrPreviousLoop(_, _, _, _, _)
binarySearchOrPreviousLoop(list, item, min, max, result) ==
    IF ~(min < max) THEN result
    ELSE LET mid == (min + max) \div 2
         IN IF list[mid + 1] = item THEN mid
            ELSE IF Lt(list[mid + 1], item)
            THEN binarySearchOrPreviousLoop(list, item, mid + 1, max, mid)
            ELSE binarySearchOrPreviousLoop(list, item, min, mid, result)

\* binarySearchOrPrevious, were the search to stop short of the last element.
binarySearchOrPreviousShort(list, item) ==
    binarySearchOrPreviousLoop(list, item, 0, Len(list) - 1, 0)

binarySearchOrPrevious(list, item) ==
    binarySearchOrPreviousLoop(list, item, 0, Len(list), 0)

RECURSIVE binarySearchOrNextLoop(_, _, _, _, _)
binarySearchOrNextLoop(list, item, min, max, result) ==
    IF ~(min < max) THEN result
    ELSE LET mid == (min + max) \div 2
         IN IF list[mid + 1] = item THEN mid
            ELSE IF Lt(item, list[mid + 1])
            THEN binarySearchOrNextLoop(list, item, min, mid, mid)
            ELSE binarySearchOrNextLoop(list, item, mid + 1, max, result)

binarySearchOrNext(list, item) ==
    binarySearchOrNextLoop(list, item, 0, Len(list), Len(list) - 1)

RECURSIVE firstIndexLargerThanTimeLoop(_, _, _, _)
firstIndexLargerThanTimeLoop(frames, time, low, high) ==
    IF ~(low < high) THEN low
    ELSE LET mid == (low + high) \div 2
         IN IF Le(At(frames[mid + 1], FLIGHT_LOG_FIELD_INDEX_TIME), time)
            THEN firstIndexLargerThanTimeLoop(frames, time, mid + 1, high)
            ELSE firstIndexLargerThanTimeLoop(frames, time, low, mid)

firstIndexLargerThanTime(frames, time) ==
    firstIndexLargerThanTimeLoop(frames, time, 0, Len(frames))

(***************************************************************************)
(* FlightLog: the public operations.  Each takes the facade fa and its     *)
(* parser ps and gives the two as the call leaves them, with what the call *)
(* returned or threw in fa.result.                                         *)
(***************************************************************************)
NoFrames == [previous |-> NullFrame, current |-> NullFrame, next |-> NullFrame]

\* What a call returned: `returned` for openLog, `chunks` for the chunk
\* queries, `found`, `i` and `at` for getFrameAtTime.
result(op, a, b) ==
    [op |-> op, a |-> a, b |-> b, returned |-> FALSE, chunks |-> <<>>,
     found |-> FALSE, i |-> 0, at |-> NoFrames, thrown |-> ""]

\* new FlightLog(logData)
newFlightLog ==
    [logIndex |-> 0, iframeDirectory |-> Undef, fieldNames |-> <<>>, numMotors |-> 0,
     allChunksCached |-> FALSE, allChunks |-> <<>>,
     directoriesBuilt |-> FALSE, intraframeDirectories |-> <<>>,
     result |-> result("new", Undef, Undef)]

\* logIndexes._getIntraframeDirectories(): built on first use.
withDirectories(fa) ==
    IF fa.directoriesBuilt THEN fa
    ELSE [fa EXCEPT !.directoriesBuilt = TRUE,
                    !.intraframeDirectories = _buildIntraframeDirectories]

getIntraframeDirectory(fa, logIndex) ==
    Head(SubSeq(fa.intraframeDirectories, logIndex + 1, logIndex + 1))

getLogError(fa, logIndex) == getIntraframeDirectory(fa, logIndex).error

\* stats.frame["I"].field[FLIGHT_LOG_FIELD_INDEX_TIME]
getMinTime(fa, logIndex) ==
    At(getIntraframeDirectory(fa, logIndex).stats.frame["I"].fieldMin,
       FLIGHT_LOG_FIELD_INDEX_TIME)

getMaxTime(fa, logIndex) ==
    At(getIntraframeDirectory(fa, logIndex).stats.frame["I"].fieldMax,
       FLIGHT_LOG_FIELD_INDEX_TIME)

getMainFieldCount(fa) == Len(fa.fieldNames)

\* openLog, were it to leave the cached chunks in place.
openLogKeepCache(fa0, ps, index) ==
    LET res == result("openLog", index, Undef)
        named(f1, p, names) ==
            IF p.thrown # ""
            THEN [fa |-> [f1 EXCEPT !.result = [res EXCEPT !.thrown = p.thrown]], ps |-> p]
            ELSE [fa |-> [f1 EXCEPT
                            !.fieldNames = names,
                            !.numMotors = _estimateNumMotors(names),
                            !.result = [res EXCEPT !.returned = TRUE]],
                  ps |-> p]
        opened(f1, p) == named(f1, p, _buildFieldNames(p))
        open(fa) ==
            IF getLogError(fa, index) # ""
            THEN [fa |-> [fa EXCEPT !.result = res], ps |-> ps]
            ELSE opened([fa EXCEPT !.logIndex = index, !.iframeDirectory = index],
                        parseHeader([ps EXCEPT !.thrown = ""],
                                    getLogBeginOffset(index), getLogBeginOffset(index + 1)))
    IN open(withDirectories(fa0))

\* openLog, were it to switch to the sub-log before it tests the error.
openLogAssignFirst(fa0, ps, index) ==
    LET res == result("openLog", index, Undef)
        named(f1, p, names) ==
            IF p.thrown # ""
            THEN [fa |-> [f1 EXCEPT !.result = [res EXCEPT !.thrown = p.thrown]], ps |-> p]
            ELSE [fa |-> [f1 EXCEPT
                            !.allChunksCached = FALSE, !.allChunks = <<>>,
                            !.fieldNames = names,
                            !.numMotors = _estimateNumMotors(names),
                            !.result = [res EXCEPT !.returned = TRUE]],
                  ps |-> p]
        opened(f1, p) == named(f1, p, _buildFieldNames(p))
        open(fa) ==
            IF getLogError(fa, index) # ""
            THEN [fa |-> [fa EXCEPT !.logIndex = index, !.iframeDirectory = index,
                                  !.result = res], ps |-> ps]
            ELSE opened([fa EXCEPT !.logIndex = index, !.iframeDirectory = index],
                        parseHeader([ps EXCEPT !.thrown = ""],
                                    getLogBeginOffset(index), getLogBeginOffset(index + 1)))
    IN open(withDirectories(fa0))

openLog(fa0, ps, index) ==
    LET res == result("openLog", index, Undef)
        named(f1, p, names) ==
            IF p.thrown # ""
            THEN [fa |-> [f1 EXCEPT !.result = [res EXCEPT !.thrown = p.thrown]], ps |-> p]
            ELSE [fa |-> [f1 EXCEPT
                            !.allChunksCached = FALSE, !.allChunks = <<>>,
                            !.fieldNames = names,
                            !.numMotors = _estimateNumMotors(names),
                            !.result = [res EXCEPT !.returned = TRUE]],
                  ps |-> p]
        opened(f1, p) == named(f1, p, _buildFieldNames(p))
        open(fa) ==
            IF getLogError(fa, index) # ""
            THEN [fa |-> [fa EXCEPT !.result = res], ps |-> ps]
            ELSE opened([fa EXCEPT !.logIndex = index, !.iframeDirectory = index],
                        parseHeader([ps EXCEPT !.thrown = ""],
                                    getLogBeginOffset(index), getLogBeginOffset(index + 1)))
    IN open(withDirectories(fa0))

\* get allChunks(): decode, inject and stamp every chunk unless cached.
allChunks(fa, ps) ==
    LET directory == getIntraframeDirectory(fa, fa.iframeDirectory)
        stamped(d, s) ==
            [fa |-> [fa EXCEPT !.allChunksCached = TRUE, !.allChunks = s.v],
             ps |-> d.ps, thrown |-> s.thrown]
        final(d, inj) ==
            IF d.ps.thrown # "" THEN [fa |-> fa, ps |-> d.ps, thrown |-> d.ps.thrown]
            ELSE IF inj.thrown # "" THEN [fa |-> fa, ps |-> d.ps, thrown |-> inj.thrown]
            ELSE stamped(d, _addMissingEventTimes(inj.v))
        injected(d) ==
            final(d, _injectComputedFields(fa.fieldNames, d.ps.sysConfig, fa.numMotors,
                                           d.chunks))
    IN IF fa.allChunksCached THEN [fa |-> fa, ps |-> ps, thrown |-> ""]
       ELSE injected(decodeChunksFrom([ps EXCEPT !.thrown = ""], directory, fa.logIndex, 0))

\* allChunks.slice(startIndex, endIndex + 1)
slice(chunks, startIndex, endIndex) ==
    SubSeq(chunks, startIndex + 1, Min(endIndex + 1, Len(chunks)))

_getChunksInIndexRange(fa, ps, startIndex0, endIndex0) ==
    LET directory == getIntraframeDirectory(fa, fa.iframeDirectory)
        startIndex == Max(0, startIndex0)
        endIndex == Min(Len(directory.offsets), endIndex0)
        sliced(a) ==
            [fa |-> a.fa, ps |-> a.ps,
             chunks |-> IF a.thrown = "" THEN slice(a.fa.allChunks, startIndex, endIndex)
                        ELSE <<>>,
             thrown |-> a.thrown]
    IN IF endIndex < startIndex
       THEN [fa |-> fa, ps |-> ps, chunks |-> <<>>, thrown |-> ""]
       ELSE sliced(allChunks(fa, ps))

getChunksInTimeRange(fa, ps, startTime, endTime) ==
    LET times == getIntraframeDirectory(fa, fa.iframeDirectory).times
        returned(r) ==
            [fa |-> [r.fa EXCEPT !.result =
                       [result("getChunksInTimeRange", startTime, endTime)
                          EXCEPT !.chunks = r.chunks, !.thrown = r.thrown]],
             ps |-> r.ps]
    IN returned(_getChunksInIndexRange(fa, ps, binarySearchOrPrevious(times, startTime),
                                       binarySearchOrPrevious(times, endTime)))

getSmoothedChunksInTimeRange(fa, ps, startTime, endTime) ==
    LET times == getIntraframeDirectory(fa, fa.iframeDirectory).times
        returned(r) ==
            [fa |-> [r.fa EXCEPT !.result =
                       [result("getSmoothedChunksInTimeRange", startTime, endTime)
                          EXCEPT !.chunks = r.chunks, !.thrown = r.thrown]],
             ps |-> r.ps]
    IN returned(_getChunksInIndexRange(fa, ps, binarySearchOrPrevious(times, startTime),
                                       binarySearchOrNext(times, endTime)))

getFrameAtTime(fa, ps, startTime) ==
    LET res == result("getFrameAtTime", startTime, Undef)
        located(chunk, frames, i) ==
            [res EXCEPT
               !.found = TRUE, !.i = i, !.chunks = <<chunk>>,
               !.at = [previous |-> IF i >= 2 THEN frames[i - 1] ELSE NullFrame,
                       current |-> IF i >= 1 THEN frames[i] ELSE NullFrame,
                       next |-> IF i < Len(frames) THEN frames[i + 1] ELSE NullFrame]]
        inChunk(chunk) ==
            located(chunk, chunk.frames, firstIndexLargerThanTime(chunk.frames, startTime))
        answer(q) ==
            [fa |-> [q.fa EXCEPT !.result =
                       IF q.fa.result.thrown # ""
                       THEN [res EXCEPT !.thrown = q.fa.result.thrown]
                       ELSE IF q.fa.result.chunks = <<>> THEN res
                       ELSE inChunk(q.fa.result.chunks[1])],
             ps |-> q.ps]
    IN answer(getSmoothedChunksInTimeRange(fa, ps, startTime, startTime))

(***************************************************************************)
(* The facade's specification: a FlightLog over a log file of one or two   *)
(* sub-logs, and the calls a client makes on it.                           *)
(***************************************************************************)
\* The k-th I-frame of a sub-log: iterations ten apart, times by schedule.
\* 1: times ten apart.  2: every I-frame at the same time.
Schedules == {1, 2}

MainFrame(schedule, k) == IFrame(10 * k, IF schedule = 1 THEN 10 * k ELSE 5)

\* What follows the first I-frame of a chunk.
FacadePieces ==
    { <<>>,
      SFrame(3),
      PFrame(1),
      PFrame(-2),
      EventDisarm(1) \o PFrame(1) \o PFrame(1),
      EventLoggingResume(0, 0) \o PFrame(1),
      <<0>> }

MaxChunks == 3

\* Chunk c of n: its first I-frame, a piece and, unless it is the last, the
\* three I-frames that fill it.
ChunkBytes(schedule, c, n, piece) ==
    MainFrame(schedule, 4 * c - 3) \o piece
      \o (IF c < n
          THEN MainFrame(schedule, 4 * c - 2) \o MainFrame(schedule, 4 * c - 1)
                 \o MainFrame(schedule, 4 * c)
          ELSE <<>>)

\* The first and the last chunk of a sub-log carry a piece.
SubLogBodies ==
    { Flatten([c \in 1..n |->
                 ChunkBytes(schedule, c, n,
                            IF c = 1 THEN first ELSE IF c = n THEN last ELSE <<>>)]) :
        schedule \in Schedules,
        n \in 1..MaxChunks,
        first \in FacadePieces,
        last \in FacadePieces }

\* The body of the first sub-log when another sub-log follows it.
FirstBody == ChunkBytes(1, 1, 2, SFrame(3)) \o ChunkBytes(1, 2, 2, PFrame(1))

\* The header of the first sub-log and the sub-log that follows it: none, a
\* good one, one whose header lacks the P definition, one whose decoding
\* throws, one without data.
Setups ==
    { <<1, <<>> >>, <<2, <<>> >>, <<3, <<>> >>, <<6, <<>> >>, <<7, <<>> >>, <<8, <<>> >>,
      <<13, <<>> >>,
      <<1, <<HeaderBase + 1>> \o IFrame(1, 10) \o PFrame(1)>>,
      <<1, <<HeaderBase + 4>> \o IFrame(1, 10)>>,
      <<1, <<HeaderBase + 5>> \o IFrame(1, 10)>>,
      <<1, <<HeaderBase + 1>> >> }

\* Logging paused after the first I-frame and resumed, by the event's word,
\* at an earlier time; four I-frames follow.
ResumedBody ==
    IFrame(10, 100) \o EventLoggingResume(0, 0)
      \o IFrame(20, 20) \o IFrame(30, 30) \o IFrame(40, 40) \o IFrame(50, 50)

FacadeInputs ==
    { <<HeaderBase + 1>> \o body : body \in SubLogBodies \cup {ResumedBody} }
      \cup { <<HeaderBase + setup[1]>> \o FirstBody \o setup[2] : setup \in Setups }

QueryTimes == {4, 5, 9, 50}

\* The facade calls of one run.
MaxCalls == 2

Init ==
    /\ logData \in FacadeInputs
    /\ parser = newParser
    /\ facade = newFlightLog
    /\ calls = 0

OpenLog(index) ==
    /\ calls < MaxCalls
    /\ calls' = calls + 1
    /\ index \in 0..(getLogCount - 1)
    /\ LET returns(r) == facade' = r.fa /\ parser' = r.ps
       IN returns(openLog(facade, parser, index))
    /\ UNCHANGED logData

GetChunksInTimeRange(startTime, endTime) ==
    /\ calls < MaxCalls
    /\ calls' = calls + 1
    /\ facade.iframeDirectory # Undef
    /\ LET returns(r) == facade' = r.fa /\ parser' = r.ps
       IN returns(getChunksInTimeRange(facade, parser, startTime, endTime))
    /\ UNCHANGED logData

GetSmoothedChunksInTimeRange(startTime, endTime) ==
    /\ calls < MaxCalls
    /\ calls' = calls + 1
    /\ facade.iframeDirectory # Undef
    /\ LET returns(r) == facade' = r.fa /\ parser' = r.ps
       IN returns(getSmoothedChunksInTimeRange(facade, parser, startTime, endTime))
    /\ UNCHANGED logData

GetFrameAtTime(startTime) ==
    /\ calls < MaxCalls
    /\ calls' = calls + 1
    /\ facade.iframeDirectory # Undef
    /\ LET returns(r) == facade' = r.fa /\ parser' = r.ps
       IN returns(getFrameAtTime(facade, parser, startTime))
    /\ UNCHANGED logData

Next ==
    \/ \E index \in 0..1 : OpenLog(index)
    \/ \E startTime \in QueryTimes, endTime \in QueryTimes :
          GetChunksInTimeRange(startTime, endTime)
    \/ \E startTime \in QueryTimes, endTime \in QueryTimes :
          GetSmoothedChunksInTimeRange(startTime, endTime)
    \/ \E startTime \in QueryTimes : GetFrameAtTime(startTime)

Spec == Init /\ [][Next]_vars

(***************************************************************************)
(* The facade over a file whose first sub-log is followed by another, for  *)
(* longer runs of openLog and chunk queries.                               *)
(***************************************************************************)
MaxSwitchCalls == 4

SwitchInit ==
    /\ logData \in { <<HeaderBase + setup[1]>> \o FirstBody \o setup[2] : setup \in Setups }
    /\ parser = newParser
    /\ facade = newFlightLog
    /\ calls = 0

SwitchOpenLog(index) ==
    /\ calls < MaxSwitchCalls
    /\ calls' = calls + 1
    /\ index \in 0..(getLogCount - 1)
    /\ LET returns(r) == facade' = r.fa /\ parser' = r.ps
       IN returns(openLog(facade, parser, index))
    /\ UNCHANGED logData

SwitchGetChunksInTimeRange(startTime, endTime) ==
    /\ calls < MaxSwitchCalls
    /\ calls' = calls + 1
    /\ facade.iframeDirectory # Undef
    /\ LET returns(r) == facade' = r.fa /\ parser' = r.ps
       IN returns(getChunksInTimeRange(facade, parser, startTime, endTime))
    /\ UNCHANGED logData

SwitchGetSmoothedChunksInTimeRange(startTime, endTime) ==
    /\ calls < MaxSwitchCalls
    /\ calls' = calls + 1
    /\ facade.iframeDirectory # Undef
    /\ LET returns(r) == facade' = r.fa /\ parser' = r.ps
       IN returns(getSmoothedChunksInTimeRange(facade, parser, startTime, endTime))
    /\ UNCHANGED logData

SwitchNext ==
    \/ \E index \in 0..1 : SwitchOpenLog(index)
    \/ \E startTime \in QueryTimes, endTime \in QueryTimes :
          SwitchGetChunksInTimeRange(startTime, endTime)
    \/ \E startTime \in QueryTimes, endTime \in QueryTimes :
          SwitchGetSmoothedChunksInTimeRange(startTime, endTime)

SwitchSpec == SwitchInit /\ [][SwitchNext]_vars

(***************************************************************************)
(* The ArrayDataStream on its own: one call on a stream over the whole of  *)
(* a buffer, as buildLogOffsetsIndex and the frame decoders make them.     *)
(***************************************************************************)
MaxBufferLength == 7

\* Buffers of the bytes of the start marker, in every order.
MarkerBuffers ==
    UNION { [1..n -> { FLIGHT_LOG_START_MARKER[k] : k \in 1..Len(FLIGHT_LOG_START_MARKER) }]
            : n \in 0..MaxBufferLength }

\* Numbers below 2^32 as halves of 16 bits, at the lengths of one to five
\* bytes and at both ends of each.
VBHalves ==
    {0, 1, 31, 32, 4095, 4096, 32767, 32768, 65535}
        \X {0, 1, 127, 128, 16383, 16384, 32768, 65535}

MinInt32 == 0 - 2147483647 - 1

VBSigned ==
    {MinInt32, MinInt32 + 1, 0 - 1073741825, 0 - 1073741824, 0 - 134217729, 0 - 134217728,
     0 - 8193, 0 - 8192, 0 - 65, 0 - 64, 0 - 1, 0, 1, 63, 64, 8191, 8192,
     134217727, 134217728, 1073741823, 1073741824, 2147483646, 2147483647}

\* The canonical encoding of a Number below 2^32: seven bits a byte, the low
\* ones first, bit 7 set on every byte but the last, no byte more than needed.
writeUnsignedVBHalves(halves) ==
    IF halves[1] = 0 /\ halves[2] < 128 THEN <<halves[2]>>
    ELSE <<(halves[2] % 128) + 128>> \o writeUnsignedVB(halves[1] * 512 + halves[2] \div 128)

\* ZigZag of an int32 v, (v << 1) ^ (v >> 31), as halves: 2v, and 2(-(v + 1)) + 1
\* of a negative v.
ZigZagEncodeHalves(v) ==
    IF v >= 0
    THEN <<v \div 32768, (v % 32768) * 2>>
    ELSE <<(0 - (v + 1)) \div 32768, ((0 - (v + 1)) % 32768) * 2 + 1>>

\* Groups of three fields: a lead byte of each selector and the two bytes
\* that may follow it.
GroupBuffers ==
    { <<lead, second, third>> :
        lead \in {0, 27, 64, 95, 127, 128, 133, 191, 192},
        second \in {0, 66, 129, 255},
        third \in {3, 127, 200} }

\* What `values` holds when a group is read: nothing, or the three fields of
\* the group before it.
GroupValues == {newArray(8), [newArray(8) EXCEPT ![1] = 40, ![2] = 41, ![3] = 42]}

StreamInit ==
    /\ logData \in MarkerBuffers
                     \cup { writeUnsignedVBHalves(u) : u \in VBHalves }
                     \cup { writeUnsignedVBHalves(ZigZagEncodeHalves(v)) : v \in VBSigned }
                     \cup GroupBuffers
    /\ parser = newParser
    /\ facade = [op |-> "new"]
    /\ calls = 0

WholeStream == [pos |-> 0, end |-> Len(logData), eof |-> FALSE]

\* buildLogOffsetsIndex: new ArrayDataStream(logData).allIndicesOf(marker).
StreamAllIndicesOf ==
    /\ calls = 0
    /\ calls' = 1
    /\ facade' = [op |-> "allIndicesOf",
                  logBeginOffsets |->
                      allIndicesOfMarker(WholeStream.pos, WholeStream.end,
                                         FLIGHT_LOG_START_MARKER)]
    /\ UNCHANGED <<logData, parser>>

StreamReadUnsignedVB ==
    /\ calls = 0
    /\ calls' = 1
    /\ facade' = [op |-> "readUnsignedVB", returned |-> readUnsignedVBHalves(WholeStream)]
    /\ UNCHANGED <<logData, parser>>

StreamReadSignedVB ==
    /\ calls = 0
    /\ calls' = 1
    /\ facade' = [op |-> "readSignedVB", returned |-> readSignedVB(WholeStream)]
    /\ UNCHANGED <<logData, parser>>

StreamReadTag2_3SVariable(values) ==
    /\ calls = 0
    /\ calls' = 1
    /\ facade' = [op |-> "readTag2_3SVariable", values |-> values,
                  returned |-> readTag2_3SVariable(WholeStream, values)]
    /\ UNCHANGED <<logData, parser>>

StreamNext ==
    \/ StreamAllIndicesOf
    \/ StreamReadUnsignedVB
    \/ StreamReadSignedVB
    \/ \E values \in GroupValues : StreamReadTag2_3SVariable(values)

StreamSpec == StreamInit /\ [][StreamNext]_vars

(***************************************************************************)
(* Properties of the dispatcher (ParseSpec).                               *)
(***************************************************************************)
\* The calls of onFrameReady made by the step from the unprimed state.
NewlyDelivered == (Len(parser.delivered) + 1)..Len(parser'.delivered)

\* C1: while the main stream is invalid, a step that completes a P-frame
\* delivers it with frameValid = FALSE, leaves the history ring's pointers as
\* they are and leaves the stream invalid; and the stream becomes valid again
\* only in a step that completes an I-frame and delivers it as valid.
C1_Resynchronization ==
    [][ /\ (/\ parser.pc = "data"
            /\ parser.lastFrameType = "P"
            /\ ~parser.mainStreamIsValid)
           => /\ ~parser'.mainStreamIsValid
              /\ parser'.mainHistory = parser.mainHistory
              /\ \A k \in NewlyDelivered :
                    parser'.delivered[k].frameType = "P"
                       => ~parser'.delivered[k].frameValid
        /\ (/\ parser.pc = "data"
            /\ ~parser.mainStreamIsValid
            /\ parser'.mainStreamIsValid)
           => /\ parser.lastFrameType = "I"
              /\ \E k \in NewlyDelivered :
                    /\ parser'.delivered[k].frameType = "I"
                    /\ parser'.delivered[k].frameValid
      ]_vars

\* A P-frame was decoded and delivered as invalid right after a delivery that
\* had invalidated the stream, in a parse that had accepted an I-frame before.
C1_Witness ==
    \E k \in 3..Len(parser.delivered) :
        /\ parser.delivered[k].frameType = "P"
        /\ ~parser.delivered[k].frameValid
        /\ parser.delivered[k].frame # NullFrame
        /\ ~parser.delivered[k - 1].frameValid
        /\ \E j \in 1..(k - 2) :
              parser.delivered[j].frameType = "I" /\ parser.delivered[j].frameValid

\* The valid main frame delivered last before delivery k, 0 when there is none.
PreviousValidMain(delivered, k) ==
    LET before == {j \in 1..(k - 1) : IsMain(delivered[j]) /\ delivered[j].frameValid}
    IN IF before = {} THEN 0 ELSE CHOOSE j \in before : \A i \in before : i <= j

\* C2: every P-frame delivered as valid has an iteration and a time that are
\* at least those of the valid main frame delivered before it and exceed them
\* by at most 5000 iterations and 10,000,000 microseconds.
C2_PFrameMonotone ==
    \A k \in 1..Len(parser.delivered) :
        LET d == parser.delivered[k]
            j == PreviousValidMain(parser.delivered, k)
        IN (d.frameType = "P" /\ d.frameValid /\ j # 0)
           => LET prev == parser.delivered[j].frame
              IN /\ prev[1] <= d.frame[1]
                 /\ d.frame[1] <= prev[1] + MAXIMUM_ITERATION_JUMP_BETWEEN_FRAMES
                 /\ prev[2] <= d.frame[2]
                 /\ d.frame[2] <= prev[2] + MAXIMUM_TIME_JUMP_BETWEEN_FRAMES

\* The frame definitions that the header lines of the sub-log give.
HeaderGiven == HeaderLines(logData[1])

\* The I definition is complete, and there is a P definition with as many
\* encodings and predictors as the I definition has fields.
HeaderDefinitionsComplete ==
    /\ HeaderGiven.I.present
    /\ HeaderGiven.I.count > 0
    /\ Len(HeaderGiven.I.encoding) = HeaderGiven.I.count
    /\ Len(HeaderGiven.I.predictor) = HeaderGiven.I.count
    /\ HeaderGiven.P.present
    /\ Len(HeaderGiven.P.encoding) = HeaderGiven.I.count
    /\ Len(HeaderGiven.P.predictor) = HeaderGiven.I.count

HeaderIncompleteErrors ==
    {"Log is missing required definitions for I frames, header may be corrupt",
     "Log is missing required definitions for P frames, header may be corrupt"}

\* C13: parseHeader returns only when the I definition is complete and a P
\* definition exists whose encodings and predictors are as many as the I
\* fields, and then P has the count and the names of I; otherwise it throws a
\* header-incomplete error and no frame of the sub-log is decoded.
C13_HeaderComplete ==
    /\ (parser.pc = "header" /\ parser.thrown = "")
          => /\ HeaderDefinitionsComplete
             /\ parser.frameDefs.P.count = parser.frameDefs.I.count
             /\ parser.frameDefs.P.name = parser.frameDefs.I.name
             /\ parser.frameDefs.I.name = HeaderGiven.I.name
    /\ (parser.pc # "constructed" /\ ~HeaderDefinitionsComplete)
          => /\ parser.pc = "header"
             /\ parser.thrown \in HeaderIncompleteErrors
             /\ parser.delivered = <<>>

\* parseHeader threw for a header whose P definition lists too few predictors.
C13_Witness ==
    /\ parser.pc = "header"
    /\ parser.thrown \in HeaderIncompleteErrors
    /\ HeaderGiven.I = GoodI
    /\ HeaderGiven.P.present
    /\ Len(HeaderGiven.P.predictor) < HeaderGiven.I.count

(***************************************************************************)
(* Properties of the facade (Spec).  They are about the chunks of the open *)
(* sub-log as the allChunks getter has decoded and cached them.            *)
(***************************************************************************)
\* The directory of the open sub-log.
OpenDirectory == getIntraframeDirectory(facade, facade.logIndex)

\* The (chunk, frame) positions of the decoded main frames.
DecodedFrames ==
    UNION { {<<c, f>> : f \in 1..Len(facade.allChunks[c].frames)} :
              c \in 1..Len(facade.allChunks) }

\* The (chunk, event) positions of the decoded events.
DecodedEvents ==
    UNION { {<<c, e>> : e \in 1..Len(facade.allChunks[c].events)} :
              c \in 1..Len(facade.allChunks) }

FrameAt(cf) == facade.allChunks[cf[1]].frames[cf[2]]
TimeAt(cf) == At(FrameAt(cf), FLIGHT_LOG_FIELD_INDEX_TIME)
OffsetAt(cf) == facade.allChunks[cf[1]].frameOffsets[cf[2]]

\* C3: after openLog(i) has succeeded, the time t of every main frame of
\* every decoded chunk of sub-log i satisfies getMinTime(i) <= t <= getMaxTime(i).
C3_TimesWithinMinMax ==
    facade.allChunksCached
       => \A cf \in DecodedFrames :
             /\ getMinTime(facade, facade.logIndex) <= TimeAt(cf)
             /\ TimeAt(cf) <= getMaxTime(facade, facade.logIndex)

\* C4: after openLog, every frame of every decoded chunk has as many columns
\* as getMainFieldCount() says, so that every field name indexes a column.
C4_FrameLength ==
    facade.allChunksCached
       => \A cf \in DecodedFrames : Len(FrameAt(cf)) = getMainFieldCount(facade)

\* The field values of the last valid S-frame the indexing pass was given
\* before the byte at offset, nulls when there was none.
SlowBefore(offset, count) ==
    LET delivered == OpenDirectory.delivered
        before == {k \in 1..Len(delivered) :
                     /\ delivered[k].frameType = "S"
                     /\ delivered[k].frameValid
                     /\ delivered[k].frameOffset < offset}
        last == CHOOSE k \in before : \A j \in before : j <= k
    IN [i \in 1..count |-> IF before = {} THEN Null ELSE delivered[last].frame[i]]

SlowCount == IF parser.frameDefs.S.present THEN parser.frameDefs.S.count ELSE 0

SlowColumns(cf) ==
    SubSeq(FrameAt(cf), parser.frameDefs.I.count + 1,
           parser.frameDefs.I.count + SlowCount)

\* C5: every main frame of every decoded chunk carries, in the columns
\* I.count .. I.count + S.count - 1, the values of the most recent valid
\* S-frame before it in the sub-log, nulls when there is none, also when that
\* S-frame lies in an earlier chunk.
C5_SlowColumns ==
    facade.allChunksCached
       => \A cf \in DecodedFrames :
             SlowColumns(cf) = SlowBefore(OffsetAt(cf), SlowCount)

\* A frame of the second chunk carries the values of an S-frame of the first.
C5_Witness ==
    /\ facade.allChunksCached
    /\ SlowCount > 0
    /\ \E cf \in DecodedFrames :
          /\ cf[1] >= 2
          /\ SlowColumns(cf) = <<3, 0>>
          /\ \E k \in 1..Len(OpenDirectory.delivered) :
                /\ OpenDirectory.delivered[k].frameType = "S"
                /\ OpenDirectory.delivered[k].frameOffset < OpenDirectory.offsets[2]

Sorted(list) == \A i \in 1..(Len(list) - 1) : list[i] <= list[i + 1]

\* i is the greatest index with list[i] <= x, or 0 when there is none.
GreatestAtMost(list, x, i) ==
    LET atMost == {j \in 0..(Len(list) - 1) : list[j + 1] <= x}
    IN IF atMost = {} THEN i = 0
       ELSE i \in atMost /\ \A j \in atMost : j <= i

\* i is an index of x when x is in the list; otherwise it is the greatest
\* index of a smaller element, or 0 when there is none.
IndexOrPrevious(list, x, i) ==
    LET equal == {j \in 0..(Len(list) - 1) : list[j + 1] = x}
        less == {j \in 0..(Len(list) - 1) : list[j + 1] < x}
    IN IF equal # {} THEN i \in equal
       ELSE IF less = {} THEN i = 0
       ELSE i \in less /\ \A j \in less : j <= i

\* The call getChunksInTimeRange(t0, t1) with t0 <= t1 returned, over sorted
\* directory times.
RangeReturned ==
    /\ facade.result.op = "getChunksInTimeRange"
    /\ facade.result.thrown = ""
    /\ facade.result.a <= facade.result.b
    /\ Sorted(OpenDirectory.times)

\* The chunks i0..i1 of the open sub-log, in ascending order.
ChunksBetween(i0, i1) ==
    [k \in 1..(i1 - i0 + 1) |-> facade.allChunks[i0 + k]]

\* C6: getChunksInTimeRange(t0, t1) with t0 <= t1 over sorted directory times
\* returns the chunks i0..i1 in ascending order, i0 and i1 being what
\* binarySearchOrPrevious gives for t0 and t1, and binarySearchOrPrevious(list, x)
\* is the greatest index i with list[i] <= x, or 0 when x is below every element.
C6_ChunksInTimeRange ==
    RangeReturned
       => LET times == OpenDirectory.times
              i0 == binarySearchOrPrevious(times, facade.result.a)
              i1 == binarySearchOrPrevious(times, facade.result.b)
          IN /\ GreatestAtMost(times, facade.result.a, i0)
             /\ GreatestAtMost(times, facade.result.b, i1)
             /\ facade.result.chunks = ChunksBetween(i0, i1)

\* C6, amended: as C6, but binarySearchOrPrevious(list, x) is an index of x
\* when x is in the list, and otherwise the greatest index of an element
\* smaller than x, or 0 when there is none.
C6_ChunksInTimeRangeAmended ==
    RangeReturned
       => LET times == OpenDirectory.times
              i0 == binarySearchOrPrevious(times, facade.result.a)
              i1 == binarySearchOrPrevious(times, facade.result.b)
          IN /\ IndexOrPrevious(times, facade.result.a, i0)
             /\ IndexOrPrevious(times, facade.result.b, i1)
             /\ facade.result.chunks = ChunksBetween(i0, i1)

\* The call returned chunks for a range that ends on a time the directory
\* holds for three chunks.
C6_Witness ==
    /\ RangeReturned
    /\ Len(OpenDirectory.times) = 3
    /\ \A i \in 1..3 : OpenDirectory.times[i] = facade.result.b
    /\ facade.result.a < facade.result.b
    /\ Len(facade.result.chunks) = 2

\* The smallest index of a frame later than time, the length when none is.
SmallestLater(frames, time) ==
    LET later == {i \in 0..(Len(frames) - 1) :
                    At(frames[i + 1], FLIGHT_LOG_FIELD_INDEX_TIME) > time}
    IN IF later = {} THEN Len(frames)
       ELSE CHOOSE i \in later : \A j \in later : i <= j

FrameOrNull(frames, i) == IF i >= 0 /\ i < Len(frames) THEN frames[i + 1] ELSE NullFrame

\* C7: getFrameAtTime(t) finds, in the chunk containing t, the smallest frame
\* index i whose time is greater than t and returns previous = frames[i-2],
\* current = frames[i-1] and next = frames[i], null or absent out of range.
C7_FrameAtTime ==
    (facade.result.op = "getFrameAtTime" /\ facade.result.found)
       => LET frames == facade.result.chunks[1].frames
              i == SmallestLater(frames, facade.result.a)
          IN /\ facade.result.i = i
             /\ facade.result.at = [previous |-> FrameOrNull(frames, i - 2),
                                    current |-> FrameOrNull(frames, i - 1),
                                    next |-> FrameOrNull(frames, i)]

\* The time of the first decoded main frame after the byte at offset, the
\* time of the last decoded main frame when none follows.
NextMainFrameTime(offset) ==
    LET after == {cf \in DecodedFrames : OffsetAt(cf) > offset}
        first == CHOOSE cf \in after : \A other \in after : OffsetAt(cf) <= OffsetAt(other)
        final == CHOOSE cf \in DecodedFrames :
                    \A other \in DecodedFrames : OffsetAt(other) <= OffsetAt(cf)
    IN IF after # {} THEN TimeAt(first) ELSE TimeAt(final)

\* C8: every event without a time of its own has, once the chunks are
\* returned, the time of the first main frame that follows it in the sub-log,
\* or of the sub-log's final main frame when none follows.
C8_EventTimes ==
    facade.allChunksCached
       => \A ce \in DecodedEvents :
             LET chunk == facade.allChunks[ce[1]]
             IN chunk.events[ce[2]].event # SYNC_BEEP
                   => chunk.events[ce[2]].time = NextMainFrameTime(chunk.eventOffsets[ce[2]])

\* C9: when gapStartsHere[k] is set in a chunk, the chunk's frame k + 1, if
\* there is one, is an I-frame.
C9_GapThenIntraframe ==
    facade.allChunksCached
       => \A c \in 1..Len(facade.allChunks) :
             \A k \in facade.allChunks[c].gapStartsHere :
                k + 2 <= Len(facade.allChunks[c].frames)
                   => facade.allChunks[c].frameTypes[k + 2] = "I"

FreshChunks(j) ==
    LET opened == openLog(newFlightLog, newParser, j)
    IN allChunks(opened.fa, opened.ps).fa.allChunks

\* The chunk was decoded from the bytes of sub-log j: it is the chunk of its
\* index that a fresh decoding of sub-log j gives, and its frames and events
\* start within the sub-log.
DecodedFrom(chunk, j) ==
    /\ LET fresh == FreshChunks(j)
       IN /\ chunk.index + 1 \in 1..Len(fresh)
          /\ chunk = Head(SubSeq(fresh, chunk.index + 1, chunk.index + 1))
    /\ \A k \in 1..Len(chunk.frameOffsets) :
          /\ getLogBeginOffset(j) <= chunk.frameOffsets[k]
          /\ chunk.frameOffsets[k] < getLogBeginOffset(j + 1)
    /\ \A k \in 1..Len(chunk.eventOffsets) :
          /\ getLogBeginOffset(j) <= chunk.eventOffsets[k]
          /\ chunk.eventOffsets[k] < getLogBeginOffset(j + 1)

\* The call of the step was a chunk query.
ChunkQuery(r) == r.op \in {"getChunksInTimeRange", "getSmoothedChunksInTimeRange"}

SourceMissing ==
    LET source == IF parser.sysConfig.firmwareType = "BETAFLIGHT"
                       /\ semverGte4(parser.sysConfig.firmwareVersion)
                  THEN "setpoint[0]" ELSE "rcCommand[0]"
    IN fieldNameToIndex(facade.fieldNames, source) \in {Undef, 0}

\* C12: a chunk query on a log whose setpoint fields (Betaflight 4.0.0 and
\* later) or rcCommand fields (other firmware) are missing, or first, raises
\* no exception and leaves the chunks decoded with the other computed fields.
C12_InjectionSkipsMissing ==
    (ChunkQuery(facade.result) /\ SourceMissing)
       => /\ facade.result.thrown = ""
          /\ \A k \in 1..Len(facade.result.chunks) :
                facade.result.chunks[k].hasAdditionalFields

(***************************************************************************)
(* Properties of the index (Spec).                                         *)
(***************************************************************************)
\* The deliveries of the indexing pass of a directory that are accepted
\* I-frames, in order.
AcceptedIntraframes(d) ==
    SelectSeq(d.delivered, LAMBDA x : x.frameType = "I" /\ x.frameValid)

\* The frame of the last valid S-frame delivered before the byte at offset,
\* the empty array when there is none.
SlowSnapshot(d, offset) ==
    LET before == {k \in 1..Len(d.delivered) :
                     /\ d.delivered[k].frameType = "S"
                     /\ d.delivered[k].frameValid
                     /\ d.delivered[k].frameOffset < offset}
    IN IF before = {} THEN <<>>
       ELSE d.delivered[CHOOSE k \in before : \A j \in before : j <= k].frame

\* r is the mean of the values at the motor fields of frame, rounded to the
\* nearest integer, a half upwards.
IsRoundedMean(r, frame, motorFields) ==
    LET sum == SumAt(frame, motorFields)
        n == Len(motorFields)
    IN 2 * n * r <= 2 * sum + n /\ 2 * sum + n < 2 * n * (r + 1)

\* C14: in the directory of an indexed sub-log with n accepted I-frames,
\* times and offsets, avgThrottle when the log has motor fields and
\* initialSlow when it has an S definition have the length ceil(n / 4), and
\* entry j holds the time, the offset, the rounded mean of the motor fields and
\* the last slow frame of the (4j + 1)-th accepted I-frame.
C14_DirectoryEntries ==
    facade.directoriesBuilt
       => \A i \in 1..Len(facade.intraframeDirectories) :
             LET d == facade.intraframeDirectories[i]
                 given == HeaderLines(logData[getLogBeginOffset(i - 1) + 1])
                 motorFields == motorFieldsOf(given.I)
                 accepted == AcceptedIntraframes(d)
                 length == (Len(accepted) + 3) \div 4
             IN d.hasStats
                   => /\ Len(d.times) = length
                      /\ Len(d.offsets) = length
                      /\ motorFields # <<>> => Len(d.avgThrottle) = length
                      /\ given.S.present => Len(d.initialSlow) = length
                      /\ \A j \in 0..(length - 1) :
                            LET first == accepted[4 * j + 1]
                            IN /\ d.times[j + 1]
                                    = At(first.frame, FLIGHT_LOG_FIELD_INDEX_TIME)
                               /\ d.offsets[j + 1] = first.frameOffset
                               /\ motorFields # <<>>
                                     => IsRoundedMean(d.avgThrottle[j + 1], first.frame,
                                                      motorFields)
                               /\ given.S.present
                                     => d.initialSlow[j + 1]
                                          = SlowSnapshot(d, first.frameOffset)

\* A directory of two entries over five accepted I-frames of a log with motor
\* fields, the second entry taken after an S-frame.
C14_Witness ==
    /\ facade.directoriesBuilt
    /\ \E i \in 1..Len(facade.intraframeDirectories) :
          LET d == facade.intraframeDirectories[i]
          IN /\ d.hasStats
             /\ Len(AcceptedIntraframes(d)) = 5
             /\ Len(d.times) = 2
             /\ Len(d.avgThrottle) = 2
             /\ d.avgThrottle[2] = 2798
             /\ d.initialSlow[2] = <<3, 0>>

(***************************************************************************)
(* The offsets of the sub-logs (StreamSpec).                               *)
(***************************************************************************)
\* The offsets at which the bytes of the start marker stand in the buffer.
MarkerOccurrences ==
    { i \in 0..(Len(logData) - Len(FLIGHT_LOG_START_MARKER)) :
        SubSeq(logData, i + 1, i + Len(FLIGHT_LOG_START_MARKER)) = FLIGHT_LOG_START_MARKER }

\* C15: allIndicesOf(marker) returns the offset of every occurrence of the
\* start marker, in strictly increasing order, and then the end of the
\* buffer; so the number of sub-logs, one less than the length of the list, is
\* the number of occurrences, and sub-log i, the bytes from offsets[i] up to
\* offsets[i + 1], begins with a marker and holds the start of no other.
C15_LogOffsets ==
    facade.op = "allIndicesOf" =>
        LET offsets == facade.logBeginOffsets
            logCount == Len(offsets) - 1
        IN /\ logCount = Cardinality(MarkerOccurrences)
           /\ { offsets[k] : k \in 1..logCount } = MarkerOccurrences
           /\ offsets[logCount + 1] = Len(logData)
           /\ \A k \in 1..logCount : offsets[k] < offsets[k + 1]
           /\ \A k \in 1..logCount :
                  MarkerOccurrences \cap (offsets[k]..(offsets[k + 1] - 1)) = {offsets[k]}

C15_Witness ==
    /\ facade.op = "allIndicesOf"
    /\ Len(facade.logBeginOffsets) = 3
    /\ facade.logBeginOffsets[1] > 0
    /\ facade.logBeginOffsets[2] + Len(FLIGHT_LOG_START_MARKER) = Len(logData)

(***************************************************************************)
(* The variable-byte integers (StreamSpec).                                *)
(***************************************************************************)
\* C16: readUnsignedVB of the canonical variable-byte encoding of a Number u
\* below 2^32 returns u, and readSignedVB of the encoding of ZigZag(v) returns
\* v, for every int32 v.
C16_VBRoundTrip ==
    /\ \A u \in VBHalves :
           (facade.op = "readUnsignedVB" /\ logData = writeUnsignedVBHalves(u))
               => facade.returned.v = u
    /\ \A v \in VBSigned :
           (facade.op = "readSignedVB"
                /\ logData = writeUnsignedVBHalves(ZigZagEncodeHalves(v)))
               => facade.returned.v = v

C16_Witness ==
    /\ facade.op = "readSignedVB"
    /\ logData = writeUnsignedVBHalves(<<65535, 65535>>)
    /\ Len(logData) = 5
    /\ facade.returned.v = MinInt32
    /\ facade.returned.pos = 5

(***************************************************************************)
(* The decision on a decoded frame (ParseSpec).                            *)
(***************************************************************************)
\* A frame has been decoded and the loop is about to read the byte after it.
FrameDecoded == parser.pc = "data" /\ parser.running /\ parser.lastFrameType # ""

\* The frame's bytes, from its marker to its last payload byte.
DecodedLength == parser.pos - parser.frameStart

\* The byte after the frame begins a frame, or the range ends there and no
\* read of the frame went past its end.
FollowedCleanly ==
    IF parser.pos < parser.end
    THEN logData[parser.pos + 1] \in {CharI, CharP, CharS, CharE}
    ELSE ~parser.prematureEof

\* The step declares the frame corrupt.
DeclaredCorrupt ==
    /\ parser'.stats.totalCorruptedFrames = parser.stats.totalCorruptedFrames + 1
    /\ Len(parser'.delivered) = Len(parser.delivered) + 1
    /\ ~parser'.delivered[Len(parser'.delivered)].frameValid
    /\ parser'.delivered[Len(parser'.delivered)].frame = NullFrame
    /\ parser'.delivered[Len(parser'.delivered)].event = NullEvent

\* C17: a decoded frame is declared corrupt unless it has at most
\* FLIGHT_LOG_MAX_FRAME_LENGTH bytes, from its marker to its last payload
\* byte, and the byte after it is a frame marker or the clean end of the
\* range; a frame that meets both is not declared corrupt.
C17_FrameAccepted ==
    [][(ParseLogDataStep /\ FrameDecoded)
          => (DeclaredCorrupt
                <=> ~(DecodedLength <= FLIGHT_LOG_MAX_FRAME_LENGTH /\ FollowedCleanly))]_vars

(***************************************************************************)
(* Corrupt frames (ParseSpec).                                             *)
(***************************************************************************)
\* The step counts a corrupt frame or makes the callback of one.
CorruptSeen ==
    \/ parser'.stats.totalCorruptedFrames # parser.stats.totalCorruptedFrames
    \/ \E t \in FrameMarkers :
           parser'.stats.frame[t].corruptCount # parser.stats.frame[t].corruptCount
    \/ \E k \in NewlyDelivered :
           ~parser'.delivered[k].frameValid /\ parser'.delivered[k].frame = NullFrame
               /\ parser'.delivered[k].event = NullEvent

\* C18: when the frame that starts at frameStart is declared corrupt, one
\* callback is made for it, with frameValid = false, no frame, its type and
\* its offset; totalCorruptedFrames and the corruptCount of its type grow by
\* one and no other corruptCount changes; the main stream is invalid; and the
\* loop goes on with the byte at frameStart + 1 as the next marker to try.
C18_CorruptFrame ==
    [][(ParseLogDataStep /\ CorruptSeen) =>
          /\ FrameDecoded
          /\ Len(parser'.delivered) = Len(parser.delivered) + 1
          /\ SubSeq(parser'.delivered, 1, Len(parser.delivered)) = parser.delivered
          /\ LET d == parser'.delivered[Len(parser'.delivered)]
             IN /\ ~d.frameValid
                /\ d.frame = NullFrame
                /\ d.event = NullEvent
                /\ d.frameType = parser.lastFrameType
                /\ d.frameOffset = parser.frameStart
          /\ parser'.stats.totalCorruptedFrames = parser.stats.totalCorruptedFrames + 1
          /\ \A t \in FrameMarkers :
                 parser'.stats.frame[t].corruptCount =
                     parser.stats.frame[t].corruptCount
                         + (IF t = parser.lastFrameType THEN 1 ELSE 0)
          /\ ~parser'.mainStreamIsValid
          /\ parser'.running
          /\ parser'.lastFrameType = ""
          /\ ~parser'.eof
          /\ parser'.pos = parser.frameStart + 1
          /\ parser'.end = parser.end]_vars

\* Two frames have been declared corrupt, the second a P-frame, and the search
\* is one byte behind its marker.
C18_Witness ==
    /\ parser.pc = "data"
    /\ parser.running
    /\ parser.stats.totalCorruptedFrames = 2
    /\ parser.stats.frame["P"].corruptCount = 1
    /\ parser.delivered # <<>>
    /\ LET d == parser.delivered[Len(parser.delivered)]
       IN /\ ~d.frameValid
          /\ d.frame = NullFrame
          /\ d.frameType = "P"
          /\ parser.pos = d.frameOffset + 1
          /\ parser.lastFrameType = ""

(***************************************************************************)
(* The acceptance of I-frames (ParseSpec).                                 *)
(***************************************************************************)
\* The step completes a decoded I-frame: it is not declared corrupt.
IntraframeCompleted ==
    ParseLogDataStep /\ FrameDecoded /\ parser.lastFrameType = "I" /\ ~CorruptSeen

\* What the completion of an I-frame does when it accepts the frame and when
\* it does not: one callback for the frame, frameValid as the frame was
\* accepted; lastMainFrameIteration and lastMainFrameTime those of an
\* accepted frame and unchanged by a rejected one, after which the main stream
\* is not valid.
IntraframeEffects(accepted) ==
    /\ Len(parser'.delivered) = Len(parser.delivered) + 1
    /\ LET d == parser'.delivered[Len(parser'.delivered)]
       IN /\ d.frameType = "I"
          /\ d.frame # NullFrame
          /\ d.frameOffset = parser.frameStart
          /\ d.frameValid = accepted
          /\ accepted => /\ d.frame = _currentFrame(parser)
                         /\ parser'.lastMainFrameIteration = d.frame[1]
                         /\ parser'.lastMainFrameTime = d.frame[2]
          /\ ~accepted => /\ parser'.lastMainFrameIteration = parser.lastMainFrameIteration
                          /\ parser'.lastMainFrameTime = parser.lastMainFrameTime
                          /\ ~parser'.mainStreamIsValid

\* C19, as stated: an I-frame is accepted iff lastMainFrameIteration is -1 or
\* its iteration and time are not below lastMainFrameIteration and
\* lastMainFrameTime and exceed them by at most 5000 iterations and at most
\* 10,000,000 microseconds; an accepted frame makes the stream valid and
\* advances the two, a rejected one invalidates the stream and is emitted
\* with frameValid = false.
C19_IntraframeAtMost ==
    [][IntraframeCompleted =>
          LET iteration == _currentFrame(parser)[1]
              time == _currentFrame(parser)[2]
          IN IntraframeEffects(
                 \/ parser.lastMainFrameIteration = -1
                 \/ /\ parser.lastMainFrameIteration <= iteration
                    /\ iteration <= parser.lastMainFrameIteration
                                      + MAXIMUM_ITERATION_JUMP_BETWEEN_FRAMES
                    /\ parser.lastMainFrameTime <= time
                    /\ time <= parser.lastMainFrameTime
                                 + MAXIMUM_TIME_JUMP_BETWEEN_FRAMES)]_vars

\* C19, amended: the same with the two jumps below their limits, less than
\* 5000 iterations and less than 10,000,000 microseconds.
C19_IntraframeBelow ==
    [][IntraframeCompleted =>
          LET iteration == _currentFrame(parser)[1]
              time == _currentFrame(parser)[2]
          IN IntraframeEffects(
                 \/ parser.lastMainFrameIteration = -1
                 \/ /\ parser.lastMainFrameIteration <= iteration
                    /\ iteration < parser.lastMainFrameIteration
                                     + MAXIMUM_ITERATION_JUMP_BETWEEN_FRAMES
                    /\ parser.lastMainFrameTime <= time
                    /\ time < parser.lastMainFrameTime
                                + MAXIMUM_TIME_JUMP_BETWEEN_FRAMES)]_vars

\* An I-frame exactly 5000 iterations after the last main frame, at the same
\* time, has been emitted with frameValid = false.
C19_Witness ==
    /\ parser.pc = "data"
    /\ parser.delivered # <<>>
    /\ LET d == parser.delivered[Len(parser.delivered)]
       IN /\ d.frameType = "I"
          /\ d.frame # NullFrame
          /\ ~d.frameValid
          /\ parser.lastMainFrameIteration # -1
          /\ SubSeq(logData, d.frameOffset + 1, d.frameOffset + d.frameSize)
                 = IFrame(parser.lastMainFrameIteration
                            + MAXIMUM_ITERATION_JUMP_BETWEEN_FRAMES,
                          parser.lastMainFrameTime)

(***************************************************************************)
(* The end of the log (ParseSpec).                                         *)
(***************************************************************************)
\* The bytes at offset o are an event frame of type LOG_END, with the
\* message or without.
LogEndAt(o) ==
    /\ o + 2 <= Len(logData)
    /\ logData[o + 1] = CharE
    /\ logData[o + 2] = LOG_END

LogEndMessageAt(o) ==
    /\ o + Len(EventLogEnd) <= Len(logData)
    /\ SubSeq(logData, o + 1, o + Len(EventLogEnd)) = EventLogEnd

\* A LOG_END event with its message has been parsed and the loop is about to
\* read the byte after it.
LogEndParsed ==
    FrameDecoded /\ parser.lastFrameType = "E" /\ LogEndMessageAt(parser.frameStart)

\* Delivery k is a LOG_END event.
LogEndDelivered(k) ==
    parser.delivered[k].event # NullEvent /\ parser.delivered[k].event.event = LOG_END

\* C20: once a LOG_END event with the message "End of log\0" is parsed, the
\* stream ends just behind the message; the parse then delivers that event and
\* ends, so that a LOG_END event is the last callback of its parse and nothing
\* behind it is delivered; and no callback delivers an event for a LOG_END
\* frame that has another message.
C20_LogEnd ==
    /\ [](LogEndParsed =>
            /\ parser.end = parser.frameStart + Len(EventLogEnd)
            /\ parser.pos = parser.end)
    /\ [][(ParseLogDataStep /\ LogEndParsed) =>
             /\ ~parser'.running
             /\ parser'.end = parser.end
             /\ Len(parser'.delivered) = Len(parser.delivered) + 1
             /\ SubSeq(parser'.delivered, 1, Len(parser.delivered)) = parser.delivered
             /\ LET d == parser'.delivered[Len(parser'.delivered)]
                IN /\ d.frameValid
                   /\ d.event # NullEvent
                   /\ d.event.event = LOG_END
                   /\ d.frameType = "E"
                   /\ d.frameOffset = parser.frameStart
                   /\ d.frameSize = Len(EventLogEnd)]_vars
    /\ [](parser.pc = "data" =>
            \A k \in 1..Len(parser.delivered) :
                LogEndDelivered(k) =>
                    /\ k = Len(parser.delivered)
                    /\ ~parser.running
                    /\ LogEndMessageAt(parser.delivered[k].frameOffset)
                    /\ \A j \in 1..(k - 1) :
                           parser.delivered[j].frameOffset < parser.delivered[k].frameOffset)
    /\ [][(ParseLogDataStep /\ FrameDecoded /\ parser.lastFrameType = "E"
              /\ LogEndAt(parser.frameStart) /\ ~LogEndMessageAt(parser.frameStart)) =>
             /\ parser'.end = parser.end
             /\ \A k \in NewlyDelivered : parser'.delivered[k].event = NullEvent]_vars

\* The parse is over at a LOG_END event that has data behind it and, before
\* it, a LOG_END frame without the message.
C20_Witness ==
    /\ parser.pc = "data"
    /\ ~parser.running
    /\ parser.delivered # <<>>
    /\ LogEndDelivered(Len(parser.delivered))
    /\ parser.end = parser.frameStart + Len(EventLogEnd)
    /\ parser.end + 3 <= Len(logData)
    /\ \E o \in 1..parser.frameStart : LogEndAt(o) /\ ~LogEndMessageAt(o)

(***************************************************************************)
(* The history ring (ParseSpec).                                           *)
(***************************************************************************)
\* The step completes a decoded main frame of type t: it is not declared
\* corrupt, and its callback is the step's delivery.
MainCompleted(t) ==
    /\ ParseLogDataStep /\ FrameDecoded /\ parser.lastFrameType = t /\ ~CorruptSeen
    /\ Len(parser'.delivered) = Len(parser.delivered) + 1

\* C21: after an accepted I-frame, previous and previous-previous both refer
\* to that I-frame; after an accepted P-frame, previous refers to that P-frame
\* and previous-previous to the former previous; a P-frame that is not
\* accepted leaves both as they were.
C21_HistoryRotation ==
    [][LET d == parser'.delivered[Len(parser'.delivered)]
       IN /\ (MainCompleted("I") /\ d.frameValid) =>
                 /\ parser'.mainHistory[2] = parser.mainHistory[1]
                 /\ parser'.mainHistory[3] = parser.mainHistory[1]
                 /\ _previousFrame(parser') = _currentFrame(parser)
                 /\ _prevPreviousFrame(parser') = _currentFrame(parser)
                 /\ d.frame = _currentFrame(parser)
          /\ (MainCompleted("P") /\ d.frameValid) =>
                 /\ parser'.mainHistory[2] = parser.mainHistory[1]
                 /\ parser'.mainHistory[3] = parser.mainHistory[2]
                 /\ _previousFrame(parser') = _currentFrame(parser)
                 /\ _prevPreviousFrame(parser') = _previousFrame(parser)
                 /\ d.frame = _currentFrame(parser)
          /\ (MainCompleted("P") /\ ~d.frameValid) =>
                 /\ parser'.mainHistory[2] = parser.mainHistory[2]
                 /\ parser'.mainHistory[3] = parser.mainHistory[3]
                 /\ _previousFrame(parser') = _previousFrame(parser)
                 /\ _prevPreviousFrame(parser') = _prevPreviousFrame(parser)]_vars

\* An I-frame and two P-frames have been accepted: previous is the second
\* P-frame, previous-previous the first, and the three are three buffers.
C21_Witness ==
    /\ parser.pc = "data"
    /\ Len(parser.delivered) = 3
    /\ parser.delivered[1].frameType = "I"
    /\ parser.delivered[2].frameType = "P"
    /\ parser.delivered[3].frameType = "P"
    /\ \A k \in 1..3 : parser.delivered[k].frameValid
    /\ _previousFrame(parser) = parser.delivered[3].frame
    /\ _prevPreviousFrame(parser) = parser.delivered[2].frame
    /\ parser.mainHistory[2] # parser.mainHistory[3]

(***************************************************************************)
(* The INC predictor of P-frames (ParseSpec).                              *)
(***************************************************************************)
\* The sampling rule: a frame is logged for iteration k.
Logged(k) ==
    ((k % parser.sysConfig.frameIntervalI) + parser.sysConfig.frameIntervalPNum - 1)
        % parser.sysConfig.frameIntervalPDenom < parser.sysConfig.frameIntervalPNum

\* A P-frame has been decoded while the main stream was valid.
InterframeDecoded ==
    /\ FrameDecoded
    /\ parser.lastFrameType = "P"
    /\ parser.mainStreamIsValid
    /\ parser.sysConfig.frameIntervalPDenom > 0

\* The INC field of the frame is previous + skipped + 1, skipped being the
\* run of iterations not logged right after lastMainFrameIteration, and the
\* frame's bytes are its marker and one variable-byte number, the time.
IncrementApplied ==
    LET skipped == parser.lastSkippedFrames
        last == parser.lastMainFrameIteration
    IN /\ _currentFrame(parser)[1] = _previousFrame(parser)[1] + skipped + 1
       /\ \A k \in (last + 1)..(last + skipped) : ~Logged(k)
       /\ Logged(last + skipped + 1)
       /\ \A o \in (parser.frameStart + 2)..(parser.pos - 1) : logData[o] >= 128
       /\ ~parser.prematureEof => logData[parser.pos] < 128

\* C22: in a P-frame decoded while the main stream is valid, the INC field
\* takes no bytes and is previous[i] + skipped + 1, skipped counting the
\* iterations right after lastMainFrameIteration that the sampling rule does
\* not log; so loopIteration is the first iteration after that of the
\* previous main frame that the rule logs.
C22_IncrementPredictor ==
    InterframeDecoded =>
        /\ IncrementApplied
        /\ Logged(_currentFrame(parser)[1])
        /\ \A k \in (_previousFrame(parser)[1] + 1)..(_currentFrame(parser)[1] - 1) :
               ~Logged(k)

(***************************************************************************)
(* Random access against the indexing pass (Spec).                         *)
(***************************************************************************)
\* The main frames the indexing pass of the open sub-log was given as valid,
\* from the first indexed I-frame on.
IndexedMainFrames ==
    LET directory == OpenDirectory
        indexed(d) == /\ IsMain(d)
                      /\ d.frameValid
                      /\ directory.offsets # <<>>
                      /\ d.frameOffset >= directory.offsets[1]
        valid == SelectSeq(directory.delivered, indexed)
    IN [k \in 1..Len(valid) |-> valid[k].frame]

\* The main columns of the frames of the decoded chunks, chunk after chunk.
ChunkMainFrames ==
    Flatten([c \in 1..Len(facade.allChunks) |->
               [f \in 1..Len(facade.allChunks[c].frames) |->
                  SubSeq(facade.allChunks[c].frames[f], 1, parser.frameDefs.I.count)]])

DispatcherAdvances ==
    \/ parser'.pos > parser.pos
    \/ /\ Len(parser'.delivered) = Len(parser.delivered) + 1
       /\ ~parser'.delivered[Len(parser'.delivered)].frameValid
       /\ parser'.pos = parser.frameStart + 1
       /\ parser'.frameStart = parser.frameStart

\* C24: parseLogData ends on every byte range for every header parseHeader
\* accepted: an iteration of the dispatcher loop that does not leave the loop
\* consumes the next byte or, after a corrupt frame, goes on behind the
\* frame's first byte, and the loop counting the intentionally skipped
\* iterations before a P-frame ends in every iteration that runs it.
C24_Terminates ==
    [][(parser.pc = "data" /\ parser'.pc = "data")
          => /\ ~parser'.hang
             /\ parser'.running => DispatcherAdvances]_vars

(***************************************************************************)
(* The order of the directory's times (Spec).                              *)
(***************************************************************************)
\* C25: the times of the directory of an indexed sub-log are in
\* non-decreasing order, whatever I-frames, P-frames and LOGGING_RESUME
\* events the indexing pass accepted.
C25_TimesSorted ==
    facade.directoriesBuilt
       => \A i \in 1..Len(facade.intraframeDirectories) :
             Sorted(facade.intraframeDirectories[i].times)

(***************************************************************************)
(* The MOTOR_0 predictor (ParseSpec).                                      *)
(***************************************************************************)
\* The I definition has a field predicted from motor[0] while it has no
\* motor[0] field, or none before that field.
Motor0Unread ==
    LET def == parser.frameDefs.I
        m == nameToIndex(def, "motor[0]")
    IN \E k \in 1..def.count :
          /\ def.predictor[k] = FLIGHT_LOG_FIELD_PREDICTOR_MOTOR_0
          /\ (m = Undef \/ m >= k - 1)

\* C26: the decoding of a frame with a field predicted from motor[0], in a
\* definition without motor[0] or with motor[0] behind that field, fails
\* with an exception that ends the decoding of the sub-log.
C26_Motor0Fails ==
    (parser.pc = "data" /\ parser.lastFrameType = "I" /\ Motor0Unread)
       => parser.thrown # ""

(***************************************************************************)
(* The frame statistics (ParseSpec).                                       *)
(***************************************************************************)
\* The step completes the decoded frame, of type T, and gives it to the
\* callback as valid.
AcceptedBy(T) ==
    /\ FrameDecoded
    /\ parser.lastFrameType = T
    /\ Len(parser'.delivered) = Len(parser.delivered) + 1
    /\ parser'.delivered[Len(parser'.delivered)].frameType = T
    /\ parser'.delivered[Len(parser'.delivered)].frameValid

\* C27: for every frame type T of I, P, S and E, validCount counts the frames
\* of type T the dispatcher accepted and bytes sums their lengths: a loop
\* iteration that accepts a frame of type T adds one and the frame's length,
\* and no other iteration changes the two.
C27_FrameStats ==
    [][(parser.pc = "data" /\ parser'.pc = "data")
          => \A T \in {"I", "P", "S", "E"} :
                /\ parser'.stats.frame[T].validCount =
                      parser.stats.frame[T].validCount + (IF AcceptedBy(T) THEN 1 ELSE 0)
                /\ parser'.stats.frame[T].bytes =
                      parser.stats.frame[T].bytes
                        + (IF AcceptedBy(T) THEN DecodedLength ELSE 0)]_vars

(***************************************************************************)
(* The length of the frames (ParseSpec).                                   *)
(***************************************************************************)
\* C28: with a header that passed the completion gate parseFrame writes no
\* index of the current vector beyond count - 1, whatever the encodings: the
\* three history vectors and every main frame given to the callback have the
\* length I.count.
C28_FrameLength ==
    parser.pc = "data"
       => /\ \A k \in 1..3 : Len(parser.mainHistoryRing[k]) = parser.frameDefs.I.count
          /\ \A k \in 1..Len(parser.delivered) :
                (IsMain(parser.delivered[k]) /\ parser.delivered[k].frame # NullFrame)
                   => Len(parser.delivered[k].frame) = parser.frameDefs.I.count

(***************************************************************************)
(* The groups of three fields (StreamSpec).                                *)
(***************************************************************************)
\* The fields of a group of selector 1, of 5, 5 and 4 bits, and of selector 2,
\* of 8, 7 and 7 bits: the bits behind the selector, the first field first,
\* each sign-extended.
GroupFields ==
    LET bits == (logData[1] % 64) * 65536 + logData[2] * 256 + logData[3]
    IN IF logData[1] \div 64 = 1
       THEN <<signExtend(5, (bits \div 131072) % 32), signExtend(5, (bits \div 4096) % 32),
              signExtend(4, (bits \div 256) % 16)>>
       ELSE <<signExtend(8, (bits \div 16384) % 256), signExtend(7, (bits \div 128) % 128),
              signExtend(7, bits % 128)>>

\* C29: readTag2_3SVariable assigns values[0], values[1] and values[2] from
\* the bytes of the group for every selector, so that none keeps what it held
\* before; for selector 1 they are the fields of 5, 5 and 4 bits and for
\* selector 2 those of 8, 7 and 7 bits.
C29_Tag2_3SVariable ==
    (facade.op = "readTag2_3SVariable" /\ Len(logData) = 3)
       => /\ \A k \in 1..3 :
                /\ facade.returned.v[k] # Undef
                /\ facade.returned.v[k]
                      = readTag2_3SVariable(WholeStream, newArray(8)).v[k]
          /\ logData[1] \div 64 \in {1, 2}
                => SubSeq(facade.returned.v, 1, 3) = GroupFields

(***************************************************************************)
(* The bounds of the stream (ParseSpec).                                   *)
(***************************************************************************)
\* C30: the stream keeps start <= pos <= end <= the length of the data while
\* the header is parsed and the frames are dispatched, and a read at
\* pos = end gives EOF (-1), sets eof and leaves pos where it is.
C30_StreamBounds ==
    /\ parser.start <= parser.pos
    /\ parser.pos <= parser.end
    /\ parser.end <= Len(logData)
    /\ parser.pos = parser.end
          => /\ readByte(parser) = [v |-> -1, pos |-> parser.pos, eof |-> TRUE]
             /\ readChar(parser) = [v |-> -1, pos |-> parser.pos, eof |-> TRUE]

\* The loop has ended at the end of a stream that a LOG_END event cut short,
\* after a corrupt frame made it search again and a frame was given out.
C30_Witness ==
    /\ parser.pc = "data"
    /\ ~parser.running
    /\ parser.eof
    /\ parser.start > 0
    /\ parser.pos = parser.end
    /\ parser.end < Len(logData)
    /\ parser.stats.totalCorruptedFrames > 0
    /\ \E k \in 1..Len(parser.delivered) : parser.delivered[k].frameValid

====
